---- MODULE Spec2Model ----
(***************************************************************************)
(* Event-booking server (src/index.js, lines 1-1097): the authentication   *)
(* middleware, the ownership check, and the group / join / article /       *)
(* comment handlers over a schemaless document store.                      *)
(*                                                                         *)
(* Values.  An email or a display name is a tuple of characters, so that   *)
(* split("@")[0] is computed; the empty tuple is the empty string.  A uid  *)
(* is a string, "" when absent.  A document is a function from the field   *)
(* names it has to their values.  An id as a client spells it is a record  *)
(* [n, sp]: the 12-byte value n written in lower-case or upper-case hex,   *)
(* or something that is no ObjectId at all.                                *)
(*                                                                         *)
(* Steps.  A handler is an async function: it runs from one await to the   *)
(* next without interruption, and any other request may run while it       *)
(* waits.  A step of the model is one such turn: the operation a request   *)
(* waits for completes (the store reads or writes at that moment) and the  *)
(* handler runs on to its next await or to its response.                   *)
(***************************************************************************)
EXTENDS Naturals, Sequences, FiniteSets, Bags, TLC

VARIABLES
    firebaseAdminInitialized,  \* index.js:10
    dbConnected,               \* index.js:200
    handles,                   \* index.js:194-199: the handles that are not null
    groupCollection,           \* set of Group documents
    joinedCollection,          \* bag of JoinRecords (no uniqueness constraint)
    articlesCollection,        \* set of Article documents
    commentsCollection,        \* set of Comment documents
    usersCollection,           \* set of User documents
    nextId,                    \* how many ObjectIds each collection has handed out
    client,                    \* the driver and the store as the last request found them
    inflight,                  \* the requests under way, each at the await it waits at
    req,                       \* the request the last step answered, NoReq when none
    res,                       \* the response it was sent
    overlapped                 \* history: a request has arrived while another was under way

vars == <<firebaseAdminInitialized, dbConnected, handles, groupCollection, joinedCollection,
          articlesCollection, commentsCollection, usersCollection, nextId, client,
          inflight, req, res, overlapped>>

store == <<groupCollection, joinedCollection, articlesCollection, commentsCollection,
          usersCollection, nextId>>

----------------------------------------------------------------------------
(* Bounds *)

\* Groups and articles ever inserted, comments ever inserted, JoinRecords held
\* at once, requests suspended at once.
MaxParents == 1
MaxComments == 1
MaxListed == 2
MaxJoins == 2
MaxInflight == 2
\* Articles in the store when comments on several articles are at issue
MaxArticles == 2
\* Calendar days on which users are created and groups take place
MaxDays == 2

----------------------------------------------------------------------------
(* Sample values *)

EmailA == <<"a", "@", "x">>
EmailB == <<"b", "@", "x">>
NoAt == <<"c">>
Emails == {EmailA, EmailB}
Uids == {"u1", "u2"}
NameAlice == <<"A", "l">>

NoUser == [uid |-> "", email |-> <<>>, name |-> <<>>]

----------------------------------------------------------------------------
(* authenticateToken *)

\* index.js:90, 103: s.split("@")[0]
RECURSIVE LocalPart(_)
LocalPart(s) ==
    IF s = <<>> \/ Head(s) = "@" THEN <<>>
    ELSE <<Head(s)>> \o LocalPart(Tail(s))

\* The tokens a client may send and what admin.auth().verifyIdToken does
\* with each: it resolves to the decoded claims or it rejects.
Tokens == {"tokA", "tokB", "tokNamed", "tokBad"}

verifyIdToken(token) ==
    CASE token = "tokA"     -> [ok |-> TRUE, uid |-> "u1", email |-> EmailA, name |-> <<>>]
      [] token = "tokB"     -> [ok |-> TRUE, uid |-> "u2", email |-> EmailB, name |-> <<>>]
      [] token = "tokNamed" -> [ok |-> TRUE, uid |-> "u1", email |-> EmailA, name |-> NameAlice]
      [] OTHER              -> [ok |-> FALSE, uid |-> "", email |-> <<>>, name |-> <<>>]

\* An Authorization header: absent (scheme ""), or a scheme and a credential.
AuthHeaders ==
    {[scheme |-> "", cred |-> ""]}
    \cup [scheme : {"Bearer"}, cred : Tokens \cup {""}]
    \cup [scheme : {"Basic"}, cred : {"tokA"}]

\* index.js:79
BearerToken(authHeader) ==
    IF authHeader.scheme = "Bearer" THEN authHeader.cred ELSE ""

\* a || b on strings held as tuples / as uids
OrElseT(a, b) == IF a # <<>> THEN a ELSE b
OrElseS(a, b) == IF a # "" THEN a ELSE b

Headers ==
    [authorization : AuthHeaders,
     xUserEmail : {<<>>, EmailA, EmailB, NoAt}, userEmail : {<<>>, EmailB},
     xUserUid : {"", "u1", "u2"}, userUid : {"", "u2"}]

MsgNoCreds == "no authentication token or user info provided"
MsgTokenFailed == "token verification failed"
MsgAuthFailed == "authentication failed"

AuthNext(user) == [next |-> 1, responses |-> 0, status |-> 0, error |-> "", user |-> user]
Auth401(msg) == [next |-> 0, responses |-> 1, status |-> 401, error |-> msg, user |-> NoUser]

\* authenticateToken verifying the token before it looks at the headers
authenticateTokenFirst(h, fbInit) ==
    LET token     == BearerToken(h.authorization)
        userEmail == OrElseT(h.xUserEmail, h.userEmail)
        userUid   == OrElseS(h.xUserUid, h.userUid)
        decoded   == verifyIdToken(token)
    IN  IF token # "" /\ fbInit /\ decoded.ok
        THEN AuthNext([uid |-> decoded.uid, email |-> decoded.email,
                       name |-> OrElseT(decoded.name, LocalPart(decoded.email))])
        ELSE IF userEmail # <<>> /\ userUid # ""
        THEN AuthNext([uid |-> userUid, email |-> userEmail, name |-> LocalPart(userEmail)])
        ELSE IF token = "" /\ userEmail = <<>> THEN Auth401(MsgNoCreds)
        ELSE IF token # "" /\ userEmail = <<>> THEN Auth401(MsgTokenFailed)
        ELSE Auth401(MsgAuthFailed)

\* authenticateToken accepting the email header alone
authenticateTokenEmailOnly(h, fbInit) ==
    LET token     == BearerToken(h.authorization)
        userEmail == OrElseT(h.xUserEmail, h.userEmail)
        userUid   == OrElseS(h.xUserUid, h.userUid)
        decoded   == verifyIdToken(token)
    IN  IF userEmail # <<>>
        THEN AuthNext([uid |-> userUid, email |-> userEmail, name |-> LocalPart(userEmail)])
        ELSE IF token # "" /\ fbInit /\ decoded.ok
        THEN AuthNext([uid |-> decoded.uid, email |-> decoded.email,
                       name |-> OrElseT(decoded.name, LocalPart(decoded.email))])
        ELSE IF token = "" /\ userEmail = <<>> THEN Auth401(MsgNoCreds)
        ELSE IF token # "" /\ userEmail = <<>> THEN Auth401(MsgTokenFailed)
        ELSE Auth401(MsgAuthFailed)

\* index.js:75-144
authenticateToken(h, fbInit) ==
    LET token     == BearerToken(h.authorization)
        userEmail == OrElseT(h.xUserEmail, h.userEmail)
        userUid   == OrElseS(h.xUserUid, h.userUid)
        decoded   == verifyIdToken(token)
    IN  IF userEmail # <<>> /\ userUid # ""
        THEN AuthNext([uid |-> userUid, email |-> userEmail, name |-> LocalPart(userEmail)])
        ELSE IF token # "" /\ fbInit /\ decoded.ok
        THEN AuthNext([uid |-> decoded.uid, email |-> decoded.email,
                       name |-> OrElseT(decoded.name, LocalPart(decoded.email))])
        ELSE IF token = "" /\ userEmail = <<>> THEN Auth401(MsgNoCreds)
        ELSE IF token # "" /\ userEmail = <<>> THEN Auth401(MsgTokenFailed)
        ELSE Auth401(MsgAuthFailed)

----------------------------------------------------------------------------
(* Documents and ids *)

Now == "t"

\* An ISO date string of an earlier instant, as a client may send one, and the
\* date strings in ascending order
Earlier == "s"
Instants == <<Earlier, Now>>
InstantRank(date) == CHOOSE i \in 1..Len(Instants) : Instants[i] = date
PlaceholderImage == "placeholder"
UnknownUser == <<"U">>
Anonymous == <<"N">>

OwnershipFields ==
    {"userEmail", "userId", "creatorEmail", "creatorId", "authorEmail", "authorId"}

\* { ...d, ...upd }: $set, and assignment of fields to a body
Assign(d, upd) ==
    [f \in DOMAIN d \cup DOMAIN upd |-> IF f \in DOMAIN upd THEN upd[f] ELSE d[f]]

\* delete d.k for every k in keys
Delete(d, keys) == [f \in DOMAIN d \ keys |-> d[f]]

EmptyDoc == [f \in {} |-> ""]

\* d.f is present and truthy (a non-empty string)
Truthy(d, f, empty) == f \in DOMAIN d /\ d[f] # empty

BadId == [n |-> 0, sp |-> "invalid"]
MissingId == [n |-> 0, sp |-> "missing"]

\* The JSON value { "$ne": null } where an id string is expected: an object,
\* truthy, that the driver reads as a query operator
NotNull == [n |-> 0, sp |-> "$ne"]
Spellings == {"lower", "upper"}
SpelledIds(max) == [n : 1..max, sp : Spellings]

\* ObjectId.isValid(id): 24 hex digits in either case
ObjectIdIsValid(id) == id.sp \in Spellings

\* new ObjectId(id): the 12 bytes the hex digits spell, whatever their case
ObjectId(id) == id.n

\* collection.findOne({ _id })
FindById(coll, n) == {d \in coll : d["_id"] = n}

----------------------------------------------------------------------------
(* isCreator *)

\* isCreator comparing emails only
isCreatorByEmail(resource, userEmail, userUid) ==
    \/ Truthy(resource, "userEmail", <<>>) /\ resource["userEmail"] = userEmail
    \/ Truthy(resource, "creatorEmail", <<>>) /\ resource["creatorEmail"] = userEmail
    \/ Truthy(resource, "authorEmail", <<>>) /\ resource["authorEmail"] = userEmail

\* isCreator comparing every field the resource has, empty or not
isCreatorLoose(resource, userEmail, userUid) ==
    \/ "userEmail" \in DOMAIN resource /\ resource["userEmail"] = userEmail
    \/ "creatorEmail" \in DOMAIN resource /\ resource["creatorEmail"] = userEmail
    \/ "authorEmail" \in DOMAIN resource /\ resource["authorEmail"] = userEmail
    \/ "userId" \in DOMAIN resource /\ resource["userId"] = userUid
    \/ "creatorId" \in DOMAIN resource /\ resource["creatorId"] = userUid
    \/ "authorId" \in DOMAIN resource /\ resource["authorId"] = userUid

\* index.js:147-171
isCreator(resource, userEmail, userUid) ==
    \/ Truthy(resource, "userEmail", <<>>) /\ resource["userEmail"] = userEmail
    \/ Truthy(resource, "creatorEmail", <<>>) /\ resource["creatorEmail"] = userEmail
    \/ Truthy(resource, "authorEmail", <<>>) /\ resource["authorEmail"] = userEmail
    \/ Truthy(resource, "userId", "") /\ resource["userId"] = userUid
    \/ Truthy(resource, "creatorId", "") /\ resource["creatorId"] = userUid
    \/ Truthy(resource, "authorId", "") /\ resource["authorId"] = userUid

----------------------------------------------------------------------------
(* checkDbConnection *)

\* What a turn finds outside the process: whether the driver reports itself
\* connected (client.topology.isConnected()), whether the connect it waited
\* for succeeded (up), whether the ping it waited for was answered, and
\* whether the store carried out the collection operation it waited for (the
\* operation throws otherwise).
Envs == [topology : BOOLEAN, up : BOOLEAN, ping : BOOLEAN, op : BOOLEAN]

\* index.js:194-199: db and the five collection handles
AllHandles ==
    {"db", "groupCollection", "joinedCollection", "usersCollection", "articlesCollection",
     "commentsCollection"}

\* only db is assigned when dbConnected is set
AssignDbOnly(hs) == hs \cup {"db"}

\* index.js:1028-1033, 1046-1051: db and the five collections are assigned
AssignHandles(hs) == hs \cup AllHandles

\* index.js:1020 and 1078: the defaults run() calls connectToMongoDB with;
\* index.js:208: the arguments of the guard's reconnect
StartupRetries == 5
StartupDelay == 2000
InlineRetries == 1
InlineDelay == 1000

\* index.js:1020-1021: a call of connectToMongoDB(retries, delay) by run() or
\* by the guard of a request, with i = 0; waits are the delays it has slept,
\* outcomes whether each attempt so far succeeded, result what it returned
Call(caller, retries, delay) ==
    [caller |-> caller, i |-> 0, retries |-> retries, delay |-> delay, waits |-> <<>>,
     outcomes |-> <<>>, result |-> FALSE]

NoCall == Call("", 0, 0)

\* the delay doubles
NextDelayDouble(delay) == delay * 2

\* index.js:1061: delay *= 1.5
NextDelay(delay) == (delay * 3) \div 2

\* The awaits of connectToMongoDB: client.connect() (index.js:1039), the ping
\* (1043) and the timer between attempts (1060)
ConnectPcs == {"connect", "connectPing", "wait"}

\* The awaits of the guard: its own ping (index.js:224) and, through the call
\* at 208, those of connectToMongoDB
GuardPcs == {"ping"} \cup ConnectPcs

\* index.js:1046-1053: the attempt succeeded
Connected(call) ==
    [to |-> "true", dbConnected |-> TRUE, handles |-> AssignHandles(handles),
     call |-> [call EXCEPT !.outcomes = Append(@, TRUE), !.result = TRUE]]

\* index.js:1021-1039: the loop at its head: out of attempts it returns false
\* (1070); with the driver connected it assigns the handles and returns true;
\* otherwise it calls client.connect() and waits for it
LoopHead(call, env) ==
    IF call.i >= call.retries
    THEN [to |-> "false", dbConnected |-> dbConnected, handles |-> handles, call |-> call]
    ELSE IF env.topology
    THEN Connected(call)
    ELSE [to |-> "connect", dbConnected |-> dbConnected, handles |-> handles, call |-> call]

\* index.js:1054-1067: connect or the ping threw: the call waits delay ms
\* before the next attempt, or after the last clears the flag and returns false
Caught(call) ==
    LET tried == [call EXCEPT !.outcomes = Append(@, FALSE)]
    IN  IF call.i < call.retries - 1
        THEN [to |-> "wait", dbConnected |-> dbConnected, handles |-> handles,
              call |-> tried]
        ELSE [to |-> "false", dbConnected |-> FALSE, handles |-> handles, call |-> tried]

\* index.js:1020-1071: connectToMongoDB resumed when the await it is suspended
\* at has ended, run to its next await or to its return: where it is then, the
\* connection flag and the handles it leaves, and its loop variables
connectToMongoDB(pc, call, env) ==
    CASE pc = "connect" ->
            IF env.up
            THEN [to |-> "connectPing", dbConnected |-> dbConnected, handles |-> handles,
                  call |-> call]
            ELSE Caught(call)
      [] pc = "connectPing" -> IF env.ping THEN Connected(call) ELSE Caught(call)
      [] pc = "wait" ->
            LoopHead([call EXCEPT !.i = @ + 1, !.waits = Append(@, call.delay),
                                  !.delay = NextDelay(@)], env)

\* the guard that pings whatever the connection flag says
checkDbConnectionOpen(env) ==
    [to |-> "ping", dbConnected |-> dbConnected, handles |-> handles, call |-> NoCall]

\* index.js:203-224 and, through the call at 208, 1020-1039: checkDbConnection
\* from its first line to the await it suspends at, or to its 503 when the
\* flag is clear and the driver reports itself connected
checkDbConnection(env) ==
    IF ~dbConnected \/ "db" \notin handles
    THEN IF ~env.topology
         THEN LoopHead(Call("checkDbConnection", InlineRetries, InlineDelay), env)
         ELSE [to |-> "503", dbConnected |-> dbConnected, handles |-> handles,
               call |-> NoCall]
    ELSE [to |-> "ping", dbConnected |-> dbConnected, handles |-> handles, call |-> NoCall]

\* index.js:208-235: checkDbConnection resumed when the await it is suspended
\* at has ended: its own ping, which answered or clears the flag (227) for a
\* 503, or an await of the connectToMongoDB it called, whose true makes it
\* return null to the handler and whose false makes it answer 503
checkDbConnectionResumed(pc, call, env) ==
    IF pc = "ping"
    THEN IF env.ping
         THEN [to |-> "handler", dbConnected |-> dbConnected, handles |-> handles,
               call |-> call]
         ELSE [to |-> "503", dbConnected |-> FALSE, handles |-> handles, call |-> call]
    ELSE LET c == connectToMongoDB(pc, call, env)
         IN  [c EXCEPT !.to = CASE c.to = "true" -> "handler"
                                [] c.to = "false" -> "503"
                                [] OTHER -> c.to]

----------------------------------------------------------------------------
(* Routes *)

RCreateGroup == "POST /createGroup"
RPutGroup == "PUT /groups/:id"
RDeleteGroup == "DELETE /groups/:id"
RLeaveGroup == "POST /leaveGroup"
RJoinGroup == "POST /joinGroup"
RPostArticle == "POST /articles"
RPutArticle == "PUT /articles/:id"
RDeleteArticle == "DELETE /articles/:id"
RPostComment == "POST /articles/:id/comments"
RDeleteComment == "DELETE /articles/:id/comments/:commentId"
RAuthOnly == "authenticateToken"
RSaveUser == "POST /save-user"
RDashboardStats == "GET /dashboard-stats"
RGetGroup == "GET /groups/:id"
RUserJoinedGroups == "GET /user-joined-groups"
RCleanup == "DELETE /cleanup-past-events"
RRun == "run"
RGetComments == "GET /articles/:id/comments"
RGetGroups == "GET /groups"
RGroupsByIds == "POST /groupsByIds"
RTotalUsers == "GET /totalUsers"
RGetArticles == "GET /articles"
RGetArticle == "GET /articles/:id"

\* index.js:241-1001: the method and path pairs a handler is registered for,
\* among those the model sends
Registered ==
    {RCreateGroup, RPutGroup, RDeleteGroup, RLeaveGroup, RJoinGroup, RPostArticle,
     RPutArticle, RDeleteArticle, RPostComment, RDeleteComment, RSaveUser,
     RDashboardStats, RUserJoinedGroups, RGetComments, RGetGroups, RGroupsByIds,
     RTotalUsers, RGetArticles, RGetArticle}

MutationRoutes ==
    {RCreateGroup, RPutGroup, RDeleteGroup, RLeaveGroup, RJoinGroup, RPostArticle,
     RPutArticle, RDeleteArticle, RPostComment, RDeleteComment}

\* the comment route registered without authenticateToken
ProtectedButComments(route) ==
    route \in (MutationRoutes \cup {RUserJoinedGroups, RAuthOnly}) \ {RPostComment}

\* index.js:241, 290, 343, 392, 460, 514, 695, 773, 822, 889, 937: the routes
\* registered with authenticateToken before their handler (RAuthOnly stands for
\* the middleware before a handler that does nothing)
Protected(route) == route \in MutationRoutes \cup {RUserJoinedGroups, RAuthOnly}

\* The middleware chain of a route: authenticateToken, or straight to the handler
Middleware(route, h) ==
    IF Protected(route) THEN authenticateToken(h, firebaseAdminInitialized)
    ELSE AuthNext(NoUser)

\* index.js:86, 97-99: authenticateToken reaches its await of verifyIdToken
AwaitsToken(h) ==
    /\ ~(OrElseT(h.xUserEmail, h.userEmail) # <<>> /\ OrElseS(h.xUserUid, h.userUid) # "")
    /\ BearerToken(h.authorization) # ""
    /\ firebaseAdminInitialized

----------------------------------------------------------------------------
(* Requests under way *)

NoHeaders ==
    [authorization |-> [scheme |-> "", cred |-> ""], xUserEmail |-> <<>>,
     userEmail |-> <<>>, xUserUid |-> "", userUid |-> ""]

\* A request: its route, its headers, the ids of its URL or body, its body and
\* its query string; with them the await its handler waits at, the loop
\* variables of the connectToMongoDB its guard called, and what the handler
\* keeps in a local variable across an await
Request(route, h, id, commentId, body, query) ==
    [pc |-> "idle", route |-> route, headers |-> h, id |-> id, commentId |-> commentId,
     body |-> body, query |-> query, call |-> NoCall, local |-> 0]

Idle == Request("", NoHeaders, MissingId, MissingId, EmptyDoc, <<>>)

ReqOf(r) ==
    [route |-> r.route, headers |-> r.headers, id |-> r.id, commentId |-> r.commentId,
     body |-> r.body, query |-> r.query]

NoReq == ReqOf(Idle)
NoRes ==
    [status |-> 0, error |-> "", user |-> NoUser, next |-> 0, responses |-> 0,
     data |-> <<>>, articleReads |-> 0]

\* A slot that holds no request: none came, or the call it held has returned
Free(slot) == inflight[slot].pc \in {"idle", "returned"}

\* History of the execution: the step is the arrival of a request in the slot
\* while the request of another slot is under way, or such an arrival has been
Overlaps(slot) ==
    \/ overlapped
    \/ /\ Free(slot)
       /\ \E other \in 1..MaxInflight :
             other # slot /\ ~Free(other) /\ inflight[other].route # RRun

\* res.status(status).json(data) to request r of the slot, which ends there
Respond(slot, r, status, data) ==
    LET auth == Middleware(r.route, r.headers)
    IN  /\ req' = ReqOf(r)
        /\ res' = [status |-> status, error |-> auth.error, user |-> auth.user,
                   next |-> auth.next, responses |-> 1, data |-> data,
                   articleReads |-> IF r.route = RDeleteComment THEN r.local ELSE 0]
        /\ inflight' = [inflight EXCEPT ![slot] = Idle]
        /\ overlapped' = Overlaps(slot)
        /\ UNCHANGED firebaseAdminInitialized

AnswerData(slot, status, data) == Respond(slot, inflight[slot], status, data)

Answer(slot, status) == Respond(slot, inflight[slot], status, <<>>)

\* The turn ends at an await: request r waits in the slot, nothing is answered
Suspend(slot, r, pc) ==
    /\ inflight' = [inflight EXCEPT ![slot] = [r EXCEPT !.pc = pc]]
    /\ req' = NoReq
    /\ res' = NoRes
    /\ overlapped' = Overlaps(slot)
    /\ UNCHANGED firebaseAdminInitialized

\* handle.operation(...) is called and awaited, after the guard of this turn,
\* if any, has assigned the handles; on a handle that is null the call throws
\* a TypeError, which the catch of the handler answers with 500
Issue(slot, r, handle, pc) ==
    IF handle \in handles' THEN Suspend(slot, r, pc) ELSE Respond(slot, r, 500, <<>>)

\* index.js:75-144 from line 100 or 107, then the handler's call of the guard
\* (index.js:243 and alike): the identity is attached or the request answered
\* 401, and the guard runs to its first await or to its 503
Admit(slot, r, env) ==
    LET g == checkDbConnection(env)
    IN  /\ client' = env
        /\ UNCHANGED store
        /\ IF Middleware(r.route, r.headers).next = 0
           THEN Respond(slot, r, 401, <<>>) /\ UNCHANGED <<dbConnected, handles>>
           ELSE /\ dbConnected' = g.dbConnected
                /\ handles' = g.handles
                /\ IF g.to = "503"
                   THEN Respond(slot, r, 503, <<>>)
                   ELSE Suspend(slot, [r EXCEPT !.call = g.call], g.to)

\* A request arrives at a registered route with a handler that calls the
\* guard: authenticateToken runs, where the route has it, to the await of
\* verifyIdToken, or the request is admitted at once
Receive(slot, request, env) ==
    /\ Free(slot)
    /\ request.route \in Registered
    /\ IF Protected(request.route) /\ AwaitsToken(request.headers)
       THEN /\ Suspend(slot, request, "verifyIdToken")
            /\ client' = env
            /\ UNCHANGED <<dbConnected, handles, store>>
       ELSE Admit(slot, request, env)

\* index.js:99-111: verifyIdToken has resolved or rejected
Verified(slot, env) ==
    /\ inflight[slot].pc = "verifyIdToken"
    /\ inflight[slot].route \in Registered
    /\ Admit(slot, inflight[slot], env)

\* index.js:208-219, 224-232, 1039-1067: the await of the guard ends and the
\* guard does not return to the handler: it answers 503, or, connected, it
\* goes on to the ping of the connection
Guard(slot, env) ==
    LET r == inflight[slot]
        g == checkDbConnectionResumed(r.pc, r.call, env)
    IN  /\ r.route \in Registered
        /\ r.pc \in GuardPcs
        /\ g.to # "handler"
        /\ client' = env
        /\ dbConnected' = g.dbConnected
        /\ handles' = g.handles
        /\ UNCHANGED store
        /\ IF g.to = "503"
           THEN Answer(slot, 503)
           ELSE Suspend(slot, [r EXCEPT !.call = g.call], g.to)

\* index.js:235 and 210: the await of the guard ends and the guard returns
\* null to the handler of the route, which runs on in the same turn
Guarded(slot, route, env) ==
    LET r == inflight[slot]
        g == checkDbConnectionResumed(r.pc, r.call, env)
    IN  /\ r.route = route
        /\ r.pc \in GuardPcs
        /\ g.to = "handler"
        /\ client' = env
        /\ dbConnected' = g.dbConnected
        /\ handles' = g.handles

\* The handler of the route is resumed at the await pc, in the surroundings
\* env; the guard is behind it
At(slot, route, pc, env) ==
    /\ inflight[slot].route = route
    /\ inflight[slot].pc = pc
    /\ client' = env
    /\ UNCHANGED <<dbConnected, handles>>

\* The identity authenticateToken attached to the request of the slot
User(slot) == Middleware(inflight[slot].route, inflight[slot].headers).user

----------------------------------------------------------------------------
(* Group handlers *)

\* index.js:246-255: the body stamped with the creator
GroupData(body, user) ==
    Assign(body,
           [userEmail |-> user.email, userId |-> user.uid,
            creatorName |-> IF Truthy(body, "creatorName", <<>>)
                            THEN body["creatorName"]
                            ELSE OrElseT(user.name, UnknownUser),
            creatorImage |-> IF Truthy(body, "creatorImage", "")
                             THEN body["creatorImage"] ELSE PlaceholderImage,
            createdAt |-> Now])

\* index.js:241-269
CreateGroup(slot, env) ==
    LET r == inflight[slot]
    IN  \/ /\ Guarded(slot, RCreateGroup, env)
           /\ UNCHANGED store
           /\ Issue(slot, r, "groupCollection", "insertOne")
        \/ /\ At(slot, RCreateGroup, "insertOne", env)
           /\ IF ~env.op
              THEN Answer(slot, 500) /\ UNCHANGED store
              ELSE /\ groupCollection' = groupCollection \cup
                          {Assign(GroupData(r.body, User(slot)),
                                  [_id |-> nextId.groups + 1])}
                   /\ nextId' = [nextId EXCEPT !.groups = @ + 1]
                   /\ Answer(slot, 201)
                   /\ UNCHANGED <<joinedCollection, articlesCollection,
                                  commentsCollection, usersCollection>>

\* index.js:319-323: the keys the group update deletes from the body
GroupUpdateStripped == {"userEmail", "userId", "creatorEmail", "creatorId"}

\* index.js:290-340
PutGroup(slot, env) ==
    LET r == inflight[slot]
        user == User(slot)
        found == FindById(groupCollection, ObjectId(r.id))
        updatedData == Assign(Delete(r.body, GroupUpdateStripped), [updatedAt |-> Now])
    IN  \/ /\ Guarded(slot, RPutGroup, env)
           /\ UNCHANGED store
           /\ IF ~ObjectIdIsValid(r.id)
              THEN Answer(slot, 400)
              ELSE Issue(slot, r, "groupCollection", "findOne")
        \/ /\ At(slot, RPutGroup, "findOne", env)
           /\ UNCHANGED store
           /\ IF ~env.op
              THEN Answer(slot, 500)
              ELSE IF found = {}
              THEN Answer(slot, 404)
              ELSE IF \E group \in found : ~isCreator(group, user.email, user.uid)
              THEN Answer(slot, 403)
              ELSE Issue(slot, r, "groupCollection", "updateOne")
        \/ /\ At(slot, RPutGroup, "updateOne", env)
           /\ IF ~env.op
              THEN Answer(slot, 500) /\ UNCHANGED store
              ELSE /\ groupCollection' =
                          (groupCollection \ found)
                             \cup {Assign(group, updatedData) : group \in found}
                   /\ Answer(slot, 200)
                   /\ UNCHANGED <<joinedCollection, articlesCollection,
                                  commentsCollection, usersCollection, nextId>>

\* collection.deleteMany(filter) on a bag of documents
DeleteMany(bag, Matches(_)) ==
    [r \in {x \in DOMAIN bag : ~Matches(x)} |-> bag[r]]

\* the handler taking every deleteOne to have deleted its document
DeletedCountOne(coll, n) == 1

\* index.js:369-373, 847-849: result.deletedCount of deleteOne({ _id })
DeletedCount(coll, n) == Cardinality(FindById(coll, n))

\* index.js:343-389
DeleteGroup(slot, env) ==
    LET r == inflight[slot]
        user == User(slot)
        found == FindById(groupCollection, ObjectId(r.id))
    IN  \/ /\ Guarded(slot, RDeleteGroup, env)
           /\ UNCHANGED store
           /\ IF ~ObjectIdIsValid(r.id)
              THEN Answer(slot, 400)
              ELSE Issue(slot, r, "groupCollection", "findOne")
        \/ /\ At(slot, RDeleteGroup, "findOne", env)
           /\ UNCHANGED store
           /\ IF ~env.op
              THEN Answer(slot, 500)
              ELSE IF found = {}
              THEN Answer(slot, 404)
              ELSE IF \E group \in found : ~isCreator(group, user.email, user.uid)
              THEN Answer(slot, 403)
              ELSE Issue(slot, r, "groupCollection", "deleteOne")
        \/ /\ At(slot, RDeleteGroup, "deleteOne", env)
           /\ IF ~env.op
              THEN Answer(slot, 500) /\ UNCHANGED store
              ELSE /\ groupCollection' = groupCollection \ found
                   /\ UNCHANGED <<joinedCollection, articlesCollection,
                                  commentsCollection, usersCollection, nextId>>
                   /\ IF DeletedCount(groupCollection, ObjectId(r.id)) = 1
                      THEN Issue(slot, r, "joinedCollection", "deleteMany")
                      ELSE Answer(slot, 404)
        \/ /\ At(slot, RDeleteGroup, "deleteMany", env)
           /\ IF ~env.op
              THEN Answer(slot, 500) /\ UNCHANGED store
              ELSE /\ joinedCollection' =
                          DeleteMany(joinedCollection, LAMBDA x : x.groupId = r.id)
                   /\ Answer(slot, 200)
                   /\ UNCHANGED <<groupCollection, articlesCollection,
                                  commentsCollection, usersCollection, nextId>>

\* deleteMany in the place of deleteOne: every copy of r goes
DeleteEvery(bag, r) == [x \in DOMAIN bag \ {r} |-> bag[x]]

\* collection.deleteOne(filter) removing document r, one copy of it
DeleteOne(bag, r) == bag (-) SetToBag({r})

\* the query with the userEmail condition left out
JoinsOfGroup(bag, groupId, userEmail) ==
    {r \in DOMAIN bag : r.groupId = groupId}

\* The condition { field: value } of a filter on a stored string: equality
\* with a string, and with the operator object { $ne: null } every stored
\* value, none of which is null
Selects(value, stored) == IF value = NotNull THEN TRUE ELSE stored = value

\* index.js:408-411, 427-430, 472-475: the documents the filter
\* { groupId, userEmail } selects, groupId being whatever the body holds
JoinsOf(bag, groupId, userEmail) ==
    {r \in DOMAIN bag : Selects(groupId, r.groupId) /\ r.userEmail = userEmail}

\* insertOne under a unique index: a document already held is not added again
InsertOneUnique(bag, doc) ==
    IF doc \in DOMAIN bag THEN bag ELSE bag (+) SetToBag({doc})

\* collection.insertOne(doc) on a collection without a unique index
InsertOne(bag, doc) == bag (+) SetToBag({doc})

\* index.js:397, 465: const { groupId } = req.body
GroupIdIn(body) == IF "groupId" \in DOMAIN body THEN body["groupId"] ELSE MissingId

\* index.js:392-447; the groupId of the body is the id of the request
LeaveGroup(slot, env) ==
    LET r == inflight[slot]
        userEmail == User(slot).email
        found == JoinsOf(joinedCollection, r.id, userEmail)
    IN  \/ /\ Guarded(slot, RLeaveGroup, env)
           /\ UNCHANGED store
           /\ IF r.id = MissingId
              THEN Answer(slot, 400)
              ELSE Issue(slot, r, "joinedCollection", "findOne")
        \/ /\ At(slot, RLeaveGroup, "findOne", env)
           /\ UNCHANGED store
           /\ IF ~env.op
              THEN Answer(slot, 500)
              ELSE IF found = {}
              THEN Answer(slot, 404)
              ELSE IF \E joinRecord \in found : joinRecord.userEmail # userEmail
              THEN Answer(slot, 403)
              ELSE Issue(slot, r, "joinedCollection", "deleteOne")
        \/ /\ At(slot, RLeaveGroup, "deleteOne", env)
           /\ UNCHANGED <<groupCollection, articlesCollection, commentsCollection,
                          usersCollection, nextId>>
           /\ IF ~env.op
              THEN Answer(slot, 500) /\ UNCHANGED joinedCollection
              ELSE IF found = {}
              THEN Answer(slot, 404) /\ UNCHANGED joinedCollection
              ELSE \E joinRecord \in found :
                      /\ joinedCollection' = DeleteOne(joinedCollection, joinRecord)
                      /\ Answer(slot, 200)

\* index.js:498-503
JoinedGroup(groupId, user) ==
    [groupId |-> groupId, userEmail |-> user.email, userId |-> user.uid, joinedAt |-> Now]

\* the join that inserts its record before it looks the group up
JoinGroupInsertFirst(slot, env) ==
    LET r == inflight[slot]
        user == User(slot)
        existing == JoinsOf(joinedCollection, r.id, user.email)
    IN  \/ /\ Guarded(slot, RJoinGroup, env)
           /\ UNCHANGED store
           /\ IF r.id = MissingId
              THEN Answer(slot, 400)
              ELSE Issue(slot, r, "joinedCollection", "existing")
        \/ /\ At(slot, RJoinGroup, "existing", env)
           /\ UNCHANGED store
           /\ IF ~env.op
              THEN Answer(slot, 500)
              ELSE IF existing # {}
              THEN Answer(slot, 409)
              ELSE IF ~ObjectIdIsValid(r.id)
              THEN Answer(slot, 400)
              ELSE Issue(slot, r, "joinedCollection", "insertOne")
        \/ /\ At(slot, RJoinGroup, "insertOne", env)
           /\ UNCHANGED <<groupCollection, articlesCollection, commentsCollection,
                          usersCollection, nextId>>
           /\ IF ~env.op
              THEN Answer(slot, 500) /\ UNCHANGED joinedCollection
              ELSE /\ joinedCollection' = InsertOne(joinedCollection, JoinedGroup(r.id, user))
                   /\ Suspend(slot, r, "findOne")
        \/ /\ At(slot, RJoinGroup, "findOne", env)
           /\ UNCHANGED store
           /\ IF ~env.op
              THEN Answer(slot, 400)
              ELSE IF FindById(groupCollection, ObjectId(r.id)) = {}
              THEN Answer(slot, 404)
              ELSE Answer(slot, 201)

\* index.js:460-511; the groupId of the body is the id of the request.  new
\* ObjectId(groupId) (index.js:489) throws on a malformed id before findOne is
\* called, and the inner catch (493-495) answers 400 to whatever is thrown
\* between 488 and 493: that, a findOne that fails, or a call on a null handle
JoinGroup(slot, env) ==
    LET r == inflight[slot]
        user == User(slot)
        existing == JoinsOf(joinedCollection, r.id, user.email)
    IN  \/ /\ Guarded(slot, RJoinGroup, env)
           /\ UNCHANGED store
           /\ IF r.id = MissingId
              THEN Answer(slot, 400)
              ELSE Issue(slot, r, "joinedCollection", "existing")
        \/ /\ At(slot, RJoinGroup, "existing", env)
           /\ UNCHANGED store
           /\ IF ~env.op
              THEN Answer(slot, 500)
              ELSE IF existing # {}
              THEN Answer(slot, 409)
              ELSE IF ~ObjectIdIsValid(r.id) \/ "groupCollection" \notin handles'
              THEN Answer(slot, 400)
              ELSE Suspend(slot, r, "findOne")
        \/ /\ At(slot, RJoinGroup, "findOne", env)
           /\ UNCHANGED store
           /\ IF ~env.op
              THEN Answer(slot, 400)
              ELSE IF FindById(groupCollection, ObjectId(r.id)) = {}
              THEN Answer(slot, 404)
              ELSE Issue(slot, r, "joinedCollection", "insertOne")
        \/ /\ At(slot, RJoinGroup, "insertOne", env)
           /\ UNCHANGED <<groupCollection, articlesCollection, commentsCollection,
                          usersCollection, nextId>>
           /\ IF ~env.op
              THEN Answer(slot, 500) /\ UNCHANGED joinedCollection
              ELSE /\ joinedCollection' = InsertOne(joinedCollection, JoinedGroup(r.id, user))
                   /\ Answer(slot, 201)

----------------------------------------------------------------------------
(* Article and comment handlers *)

\* index.js:707-723: the body stamped with the author
ArticleData(body, user) ==
    Assign(body,
           [authorEmail |-> user.email, authorId |-> user.uid,
            userEmail |-> user.email, userId |-> user.uid,
            authorName |-> IF Truthy(body, "authorName", <<>>)
                           THEN body["authorName"]
                           ELSE OrElseT(user.name, Anonymous),
            coverImage |-> IF Truthy(body, "coverImage", "")
                           THEN body["coverImage"] ELSE PlaceholderImage,
            publishDate |-> IF Truthy(body, "publishDate", "")
                            THEN body["publishDate"] ELSE Now,
            createdAt |-> IF Truthy(body, "createdAt", "")
                          THEN body["createdAt"] ELSE Now])

\* index.js:695-735
PostArticle(slot, env) ==
    LET r == inflight[slot]
    IN  \/ /\ Guarded(slot, RPostArticle, env)
           /\ UNCHANGED store
           /\ IF ~Truthy(r.body, "title", "")
              THEN Answer(slot, 400)
              ELSE Issue(slot, r, "articlesCollection", "insertOne")
        \/ /\ At(slot, RPostArticle, "insertOne", env)
           /\ IF ~env.op
              THEN Answer(slot, 500) /\ UNCHANGED store
              ELSE /\ articlesCollection' = articlesCollection \cup
                          {Assign(ArticleData(r.body, User(slot)),
                                  [_id |-> nextId.articles + 1])}
                   /\ nextId' = [nextId EXCEPT !.articles = @ + 1]
                   /\ Answer(slot, 201)
                   /\ UNCHANGED <<groupCollection, joinedCollection,
                                  commentsCollection, usersCollection>>

\* index.js:799-803: the keys the article update deletes from the body
ArticleUpdateStripped == {"authorEmail", "authorId", "userEmail", "userId"}

\* index.js:773-819
PutArticle(slot, env) ==
    LET r == inflight[slot]
        user == User(slot)
        found == FindById(articlesCollection, ObjectId(r.id))
        updatedData == Assign(Delete(r.body, ArticleUpdateStripped), [updatedAt |-> Now])
    IN  \/ /\ Guarded(slot, RPutArticle, env)
           /\ UNCHANGED store
           /\ IF ~ObjectIdIsValid(r.id)
              THEN Answer(slot, 400)
              ELSE Issue(slot, r, "articlesCollection", "findOne")
        \/ /\ At(slot, RPutArticle, "findOne", env)
           /\ UNCHANGED store
           /\ IF ~env.op
              THEN Answer(slot, 500)
              ELSE IF found = {}
              THEN Answer(slot, 404)
              ELSE IF \E article \in found : ~isCreator(article, user.email, user.uid)
              THEN Answer(slot, 403)
              ELSE Issue(slot, r, "articlesCollection", "updateOne")
        \/ /\ At(slot, RPutArticle, "updateOne", env)
           /\ IF ~env.op
              THEN Answer(slot, 500) /\ UNCHANGED store
              ELSE /\ articlesCollection' =
                          (articlesCollection \ found)
                             \cup {Assign(article, updatedData) : article \in found}
                   /\ Answer(slot, 200)
                   /\ UNCHANGED <<groupCollection, joinedCollection,
                                  commentsCollection, usersCollection, nextId>>

\* index.js:822-864
DeleteArticle(slot, env) ==
    LET r == inflight[slot]
        user == User(slot)
        found == FindById(articlesCollection, ObjectId(r.id))
    IN  \/ /\ Guarded(slot, RDeleteArticle, env)
           /\ UNCHANGED store
           /\ IF ~ObjectIdIsValid(r.id)
              THEN Answer(slot, 400)
              ELSE Issue(slot, r, "articlesCollection", "findOne")
        \/ /\ At(slot, RDeleteArticle, "findOne", env)
           /\ UNCHANGED store
           /\ IF ~env.op
              THEN Answer(slot, 500)
              ELSE IF found = {}
              THEN Answer(slot, 404)
              ELSE IF \E article \in found : ~isCreator(article, user.email, user.uid)
              THEN Answer(slot, 403)
              ELSE Issue(slot, r, "articlesCollection", "deleteOne")
        \/ /\ At(slot, RDeleteArticle, "deleteOne", env)
           /\ IF ~env.op
              THEN Answer(slot, 500) /\ UNCHANGED store
              ELSE /\ articlesCollection' = articlesCollection \ found
                   /\ UNCHANGED <<groupCollection, joinedCollection,
                                  commentsCollection, usersCollection, nextId>>
                   /\ IF DeletedCount(articlesCollection, ObjectId(r.id)) = 1
                      THEN Issue(slot, r, "commentsCollection", "deleteMany")
                      ELSE Answer(slot, 404)
        \/ /\ At(slot, RDeleteArticle, "deleteMany", env)
           /\ IF ~env.op
              THEN Answer(slot, 500) /\ UNCHANGED store
              ELSE /\ commentsCollection' =
                          {c \in commentsCollection : c["articleId"] # r.id}
                   /\ Answer(slot, 200)
                   /\ UNCHANGED <<groupCollection, joinedCollection,
                                  articlesCollection, usersCollection, nextId>>

\* cursor.sort({ first: -1, second: -1 }).toArray(): the arrays that hold
\* every document once, descending by the first date and, among equal first
\* dates, by the second; documents equal in both come in either order
SortDescending(docs, first, second) ==
    LET n == Cardinality(docs)
        Precedes(a, b) ==
            \/ InstantRank(a[first]) > InstantRank(b[first])
            \/ /\ a[first] = b[first]
               /\ InstantRank(a[second]) >= InstantRank(b[second])
    IN  {s \in [1..n -> docs] :
            \A i, j \in 1..n : i < j => s[i] # s[j] /\ Precedes(s[i], s[j])}

\* index.js:868-887
GetComments(slot, env) ==
    LET r == inflight[slot]
        found == {c \in commentsCollection : c["articleId"] = r.id}
    IN  \/ /\ Guarded(slot, RGetComments, env)
           /\ UNCHANGED store
           /\ IF ~ObjectIdIsValid(r.id)
              THEN Answer(slot, 400)
              ELSE Issue(slot, r, "commentsCollection", "find")
        \/ /\ At(slot, RGetComments, "find", env)
           /\ UNCHANGED store
           /\ IF ~env.op
              THEN Answer(slot, 500)
              ELSE \E comments \in SortDescending(found, "timestamp", "createdAt") :
                      AnswerData(slot, 200, comments)

\* index.js:738-749
GetArticles(slot, env) ==
    LET r == inflight[slot]
    IN  \/ /\ Guarded(slot, RGetArticles, env)
           /\ UNCHANGED store
           /\ Issue(slot, r, "articlesCollection", "find")
        \/ /\ At(slot, RGetArticles, "find", env)
           /\ UNCHANGED store
           /\ IF ~env.op
              THEN Answer(slot, 500)
              ELSE \E articles \in
                         SortDescending(articlesCollection, "publishDate", "createdAt") :
                      AnswerData(slot, 200, articles)

\* index.js:752-770
GetArticle(slot, env) ==
    LET r == inflight[slot]
        found == FindById(articlesCollection, ObjectId(r.id))
    IN  \/ /\ Guarded(slot, RGetArticle, env)
           /\ UNCHANGED store
           /\ IF ~ObjectIdIsValid(r.id)
              THEN Answer(slot, 400)
              ELSE Issue(slot, r, "articlesCollection", "findOne")
        \/ /\ At(slot, RGetArticle, "findOne", env)
           /\ UNCHANGED store
           /\ IF ~env.op
              THEN Answer(slot, 500)
              ELSE IF found = {}
              THEN Answer(slot, 404)
              ELSE \E article \in found : AnswerData(slot, 200, article)

\* index.js:913-922: the comment built from the body and the identity
NewComment(id, body, user) ==
    [articleId |-> id,
     text |-> IF Truthy(body, "text", "") THEN body["text"] ELSE body["comment"],
     authorName |-> IF Truthy(body, "authorName", <<>>) THEN body["authorName"]
                    ELSE OrElseT(user.name, Anonymous),
     authorEmail |-> user.email,
     authorId |-> user.uid,
     authorImage |-> IF Truthy(body, "authorImage", "") THEN body["authorImage"]
                     ELSE PlaceholderImage,
     timestamp |-> IF Truthy(body, "timestamp", "") THEN body["timestamp"] ELSE Now,
     createdAt |-> Now]

\* index.js:889-934
PostComment(slot, env) ==
    LET r == inflight[slot]
    IN  \/ /\ Guarded(slot, RPostComment, env)
           /\ UNCHANGED store
           /\ IF ~ObjectIdIsValid(r.id)
              THEN Answer(slot, 400)
              ELSE Issue(slot, r, "articlesCollection", "findOne")
        \/ /\ At(slot, RPostComment, "findOne", env)
           /\ UNCHANGED store
           /\ IF ~env.op
              THEN Answer(slot, 500)
              ELSE IF FindById(articlesCollection, ObjectId(r.id)) = {}
              THEN Answer(slot, 404)
              ELSE IF ~Truthy(r.body, "text", "") /\ ~Truthy(r.body, "comment", "")
              THEN Answer(slot, 400)
              ELSE Issue(slot, r, "commentsCollection", "insertOne")
        \/ /\ At(slot, RPostComment, "insertOne", env)
           /\ IF ~env.op
              THEN Answer(slot, 500) /\ UNCHANGED store
              ELSE /\ commentsCollection' = commentsCollection \cup
                          {Assign(NewComment(r.id, r.body, User(slot)),
                                  [_id |-> nextId.comments + 1])}
                   /\ nextId' = [nextId EXCEPT !.comments = @ + 1]
                   /\ Answer(slot, 201)
                   /\ UNCHANGED <<groupCollection, joinedCollection,
                                  articlesCollection, usersCollection>>

\* the check that looks at no article at all
ArticleAuthorNever(isCommentAuthor, articles, userEmail, userUid) ==
    [reads |-> 0, isArticleAuthor |-> FALSE]

\* index.js:965-971: the article is looked up only for a requester who is not
\* the comment's author
ArticleAuthor(isCommentAuthor, articles, userEmail, userUid) ==
    IF isCommentAuthor
    THEN [reads |-> 0, isArticleAuthor |-> FALSE]
    ELSE [reads |-> 1,
          isArticleAuthor |-> \E article \in articles :
                                 isCreator(article, userEmail, userUid)]

\* index.js:937-998; local counts the article lookups of the request
DeleteComment(slot, env) ==
    LET r == inflight[slot]
        user == User(slot)
        found == {c \in FindById(commentsCollection, ObjectId(r.commentId)) :
                    c["articleId"] = r.id}
        articles == FindById(articlesCollection, ObjectId(r.id))
        read == [r EXCEPT !.local = 1]
    IN  \/ /\ Guarded(slot, RDeleteComment, env)
           /\ UNCHANGED store
           /\ IF ~ObjectIdIsValid(r.id) \/ ~ObjectIdIsValid(r.commentId)
              THEN Answer(slot, 400)
              ELSE Issue(slot, r, "commentsCollection", "findOne")
        \/ /\ At(slot, RDeleteComment, "findOne", env)
           /\ UNCHANGED store
           /\ IF ~env.op
              THEN Answer(slot, 500)
              ELSE IF found = {}
              THEN Answer(slot, 404)
              ELSE LET isCommentAuthor ==
                          \E comment \in found : isCreator(comment, user.email, user.uid)
                       second == ArticleAuthor(isCommentAuthor, {}, user.email, user.uid)
                   IN  IF second.reads = 1
                       THEN Issue(slot, read, "articlesCollection", "findArticle")
                       ELSE IF ~isCommentAuthor
                       THEN Answer(slot, 403)
                       ELSE Issue(slot, r, "commentsCollection", "deleteOne")
        \/ /\ At(slot, RDeleteComment, "findArticle", env)
           /\ UNCHANGED store
           /\ IF ~env.op
              THEN Answer(slot, 500)
              ELSE IF ~ArticleAuthor(FALSE, articles, user.email, user.uid).isArticleAuthor
              THEN Answer(slot, 403)
              ELSE Issue(slot, r, "commentsCollection", "deleteOne")
        \/ /\ At(slot, RDeleteComment, "deleteOne", env)
           /\ IF ~env.op
              THEN Answer(slot, 500) /\ UNCHANGED store
              ELSE /\ commentsCollection' = commentsCollection \ found
                   /\ UNCHANGED <<groupCollection, joinedCollection,
                                  articlesCollection, usersCollection, nextId>>
                   /\ IF Cardinality(found) = 1
                      THEN Answer(slot, 200)
                      ELSE Answer(slot, 404)

\* The middleware on its own, before a handler that does nothing: the call of
\* authenticateToken (index.js:75-144) for the request of the slot, up to its
\* await of verifyIdToken and from there to its outcome, which is recorded:
\* next() or the 401
AuthOnly(slot) ==
    LET q == inflight[slot]
        auth == authenticateToken(q.headers, firebaseAdminInitialized)
    IN  /\ q.route = RAuthOnly
        /\ q.pc \in {"authenticateToken", "verifyIdToken"}
        /\ UNCHANGED <<dbConnected, handles, store, firebaseAdminInitialized, client,
                       overlapped>>
        /\ IF q.pc = "authenticateToken" /\ AwaitsToken(q.headers)
           THEN /\ inflight' = [inflight EXCEPT ![slot] = [q EXCEPT !.pc = "verifyIdToken"]]
                /\ req' = NoReq
                /\ res' = NoRes
           ELSE /\ inflight' = [inflight EXCEPT ![slot] = Idle]
                /\ req' = ReqOf(q)
                /\ res' = [status |-> auth.status, error |-> auth.error,
                           user |-> auth.user, next |-> auth.next,
                           responses |-> auth.responses, data |-> <<>>,
                           articleReads |-> 0]

----------------------------------------------------------------------------
(* Users, the dashboard and the list of a user's joins *)

\* A day is its rank among the date strings in ascending order; NoDate is the
\* null key of documents that have no date
NoDate == 0
Days == 1..MaxDays

\* The elements of a finite set of numbers in ascending order ($sort: { _id: 1 })
RECURSIVE Ascending(_)
Ascending(S) ==
    IF S = {} THEN <<>>
    ELSE LET least == CHOOSE x \in S : \A y \in S : x <= y
         IN  <<least>> \o Ascending(S \ {least})

\* index.js:617-633: users that have a createdAt, counted per day
UsersPerDay(users) ==
    LET dated == {u \in users : "createdAt" \in DOMAIN u}
        keys  == Ascending({u["createdAt"] : u \in dated})
    IN  [i \in 1..Len(keys) |->
            [_id |-> keys[i],
             users |-> Cardinality({u \in dated : u["createdAt"] = keys[i]})]]

\* The $group key of a group: its formattedDate, null when it has none
FormattedDate(g) == IF "formattedDate" \in DOMAIN g THEN g["formattedDate"] ELSE NoDate

\* index.js:636-646: groups counted per formattedDate, the null key first
GroupsPerDay(groups) ==
    LET keys == Ascending({FormattedDate(g) : g \in groups})
    IN  [i \in 1..Len(keys) |->
            [_id |-> keys[i],
             groups |-> Cardinality({g \in groups : FormattedDate(g) = keys[i]})]]

\* index.js:648-668: one row per user day, then the group days not yet listed
MergeStats(usersPerDay, groupsPerDay) ==
    LET GroupsOn(d) ==
            LET hit == {j \in 1..Len(groupsPerDay) : groupsPerDay[j]["_id"] = d}
            IN  IF hit = {} THEN 0 ELSE groupsPerDay[CHOOSE j \in hit : TRUE].groups
        first == [i \in 1..Len(usersPerDay) |->
                    [date |-> usersPerDay[i]["_id"], users |-> usersPerDay[i].users,
                     groups |-> GroupsOn(usersPerDay[i]["_id"])]]
        Listed(d) == \E i \in 1..Len(first) : first[i].date = d
        rest == SelectSeq(groupsPerDay, LAMBDA g : ~Listed(g["_id"]))
    IN  first \o [i \in 1..Len(rest) |->
                    [date |-> rest[i]["_id"], users |-> 0, groups |-> rest[i].groups]]

\* index.js:670: a.date.localeCompare(b.date) is called with each row after the
\* first as a, and throws when a.date is null
SortThrows(stats) == \E i \in 2..Len(stats) : stats[i].date = NoDate

\* index.js:670: ascending by date; a null date compared against is read as the
\* string "null", which follows every date
SortStats(stats) ==
    LET Rank(i) == IF stats[i].date = NoDate THEN MaxDays + 2 ELSE stats[i].date
        Place(i) == Cardinality({j \in 1..Len(stats) :
                        Rank(j) < Rank(i) \/ (Rank(j) = Rank(i) /\ j <= i)})
    IN  [k \in 1..Len(stats) |-> stats[CHOOSE i \in 1..Len(stats) : Place(i) = k]]

\* index.js:611-677; local is usersPerDay
DashboardStats(slot, env) ==
    LET r == inflight[slot]
        stats == MergeStats(r.local, GroupsPerDay(groupCollection))
    IN  \/ /\ Guarded(slot, RDashboardStats, env)
           /\ UNCHANGED store
           /\ Issue(slot, r, "usersCollection", "aggregateUsers")
        \/ /\ At(slot, RDashboardStats, "aggregateUsers", env)
           /\ UNCHANGED store
           /\ IF ~env.op
              THEN Answer(slot, 500)
              ELSE Issue(slot, [r EXCEPT !.local = UsersPerDay(usersCollection)],
                         "groupCollection", "aggregateGroups")
        \/ /\ At(slot, RDashboardStats, "aggregateGroups", env)
           /\ UNCHANGED store
           /\ IF ~env.op \/ SortThrows(stats)
              THEN Answer(slot, 500)
              ELSE AnswerData(slot, 200, SortStats(stats))

NoName == <<"N", "o">>

\* index.js:580, 586-593: the $set of the body's email, name and photo, with
\* the defaults for a name or photo that is missing, on the day today
UpdateDoc(body, today) ==
    [email |-> IF "email" \in DOMAIN body THEN body["email"] ELSE <<>>,
     name |-> IF Truthy(body, "name", <<>>) THEN body["name"] ELSE NoName,
     photo |-> IF Truthy(body, "photo", "") THEN body["photo"] ELSE PlaceholderImage,
     updatedAt |-> today]

\* The days a document was stamped with
Stamps(doc) == {doc[f] : f \in {"createdAt", "updatedAt"} \cap DOMAIN doc}

\* new Date(): the clock does not run backwards, so a day stamped now is not
\* before any day stamped already, in the store or in a request under way
NotBefore(today) ==
    /\ \A u \in usersCollection : \A d \in Stamps(u) : d <= today
    /\ \A slot \in 1..MaxInflight :
          (inflight[slot].route = RSaveUser /\ inflight[slot].pc \in {"findOne", "updateOne"})
             => \A d \in Stamps(inflight[slot].local) : d <= today

\* index.js:575-610, the turn taken on the day today; local is the $set
SaveUser(slot, today, env) ==
    LET r == inflight[slot]
        email == IF "email" \in DOMAIN r.body THEN r.body["email"] ELSE <<>>
        matched == {u \in usersCollection : u["email"] = email}
    IN  \/ /\ Guarded(slot, RSaveUser, env)
           /\ NotBefore(today)
           /\ UNCHANGED store
           /\ IF email = <<>>
              THEN Answer(slot, 400)
              ELSE Issue(slot, [r EXCEPT !.local = UpdateDoc(r.body, today)],
                         "usersCollection", "findOne")
        \/ /\ At(slot, RSaveUser, "findOne", env)
           /\ NotBefore(today)
           /\ UNCHANGED store
           /\ IF ~env.op
              THEN Answer(slot, 500)
              ELSE Issue(slot,
                         IF matched = {}
                         THEN [r EXCEPT !.local = Assign(@, [createdAt |-> today])]
                         ELSE r,
                         "usersCollection", "updateOne")
        \/ /\ At(slot, RSaveUser, "updateOne", env)
           /\ UNCHANGED <<groupCollection, joinedCollection, articlesCollection,
                          commentsCollection, nextId>>
           /\ IF ~env.op
              THEN Answer(slot, 500) /\ UNCHANGED usersCollection
              ELSE /\ IF matched = {}
                      THEN usersCollection' = usersCollection \cup {r.local}
                      ELSE \E u \in matched :
                              usersCollection' =
                                 (usersCollection \ {u}) \cup {Assign(u, r.local)}
                   /\ Answer(slot, 200)

\* joinedCollection.find({ userEmail }).toArray(): the matching records, each
\* as often as the collection holds it
JoinsOfUser(bag, userEmail) ==
    [r \in {q \in DOMAIN bag : q.userEmail = userEmail} |-> bag[r]]

\* index.js:514-536; the query string ?email= is not read
UserJoinedGroups(slot, env) ==
    LET r == inflight[slot]
        userEmail == User(slot).email
    IN  \/ /\ Guarded(slot, RUserJoinedGroups, env)
           /\ UNCHANGED store
           /\ IF userEmail = <<>>
              THEN AnswerData(slot, 400, EmptyBag)
              ELSE Issue(slot, r, "joinedCollection", "find")
        \/ /\ At(slot, RUserJoinedGroups, "find", env)
           /\ UNCHANGED store
           /\ IF ~env.op
              THEN AnswerData(slot, 500, EmptyBag)
              ELSE AnswerData(slot, 200, JoinsOfUser(joinedCollection, userEmail))

\* index.js:272-287: req.query.userEmail is the query string of the request
GetGroups(slot, env) ==
    LET r == inflight[slot]
        userEmail == r.query
    IN  \/ /\ Guarded(slot, RGetGroups, env)
           /\ UNCHANGED store
           /\ Issue(slot, r, "groupCollection", "find")
        \/ /\ At(slot, RGetGroups, "find", env)
           /\ UNCHANGED store
           /\ IF ~env.op
              THEN Answer(slot, 500)
              ELSE IF userEmail # <<>>
              THEN AnswerData(slot, 200,
                              {g \in groupCollection :
                                  "userEmail" \in DOMAIN g /\ g["userEmail"] = userEmail})
              ELSE AnswerData(slot, 200, groupCollection)

\* index.js:545: const { ids } = req.body, an array when the body has one
IdsIn(body) == IF "ids" \in DOMAIN body THEN body["ids"] ELSE <<>>

\* index.js:539-572
GroupsByIds(slot, env) ==
    LET r == inflight[slot]
        ids == IdsIn(r.body)
        objectIds == {ObjectId(ids[i]) : i \in DOMAIN ids}
    IN  \/ /\ Guarded(slot, RGroupsByIds, env)
           /\ UNCHANGED store
           /\ IF Len(ids) = 0
              THEN Answer(slot, 400)
              ELSE IF \E i \in DOMAIN ids : ~ObjectIdIsValid(ids[i])
              THEN Answer(slot, 400)
              ELSE Issue(slot, r, "groupCollection", "find")
        \/ /\ At(slot, RGroupsByIds, "find", env)
           /\ UNCHANGED store
           /\ IF ~env.op
              THEN Answer(slot, 500)
              ELSE AnswerData(slot, 200,
                              {g \in groupCollection : g["_id"] \in objectIds})

\* index.js:680-692
TotalUsers(slot, env) ==
    LET r == inflight[slot]
    IN  \/ /\ Guarded(slot, RTotalUsers, env)
           /\ UNCHANGED store
           /\ Issue(slot, r, "usersCollection", "estimatedDocumentCount")
        \/ /\ At(slot, RTotalUsers, "estimatedDocumentCount", env)
           /\ UNCHANGED store
           /\ IF ~env.op
              THEN Answer(slot, 500)
              ELSE AnswerData(slot, 200, [total |-> Cardinality(usersCollection)])

----------------------------------------------------------------------------
(* Requests that reach no handler *)

\* index.js:1009-1016: a request that no registered route matches
Unrouted(route, id) ==
    /\ route \notin Registered
    /\ req' = ReqOf(Request(route, NoHeaders, id, MissingId, EmptyDoc, <<>>))
    /\ res' = [NoRes EXCEPT !.status = 404, !.next = 1, !.responses = 1]
    /\ UNCHANGED <<firebaseAdminInitialized, dbConnected, handles, store, inflight, client, overlapped>>

\* index.js:53: what express.json() makes of the request body: it parses it, or
\* passes an error with a status to next: 400 for a body that is not JSON, 413
\* for a body over the size limit
BodyOutcomes == {"parsed", "entity.parse.failed", "entity.too.large"}
NoStatus == 0
ExpressJson(outcome) ==
    CASE outcome = "entity.parse.failed" -> [status |-> 400, message |-> outcome]
      [] outcome = "entity.too.large" -> [status |-> 413, message |-> outcome]
      [] OTHER -> [status |-> NoStatus, message |-> ""]

\* index.js:66: err.status || 500
ErrorStatus(err) == IF err.status # NoStatus THEN err.status ELSE 500

\* index.js:53-72: the body of a request to any path is refused by
\* express.json(), whose error skips the routes and reaches the global error
\* handler; nothing was sent yet, so the handler answers
GlobalErrorHandler(route, h, id, outcome) ==
    LET err == ExpressJson(outcome)
    IN  /\ outcome # "parsed"
        /\ req' = ReqOf(Request(route, h, id, MissingId, EmptyDoc, <<>>))
        /\ res' = [NoRes EXCEPT !.status = ErrorStatus(err), !.error = err.message,
                                !.responses = 1]
        /\ UNCHANGED <<firebaseAdminInitialized, dbConnected, handles, store, inflight, client, overlapped>>

----------------------------------------------------------------------------
(* The start of the process *)

\* start-up that deletes the groups whose formattedDate is before today
RunPurging(today, env) ==
    LET g == LoopHead(Call("run", StartupRetries, StartupDelay), env)
    IN  /\ ~env.topology
        /\ client' = env
        /\ dbConnected' = FALSE
        /\ handles' = {}
        /\ groupCollection' =
              {d \in groupCollection :
                  ~("formattedDate" \in DOMAIN d /\ d["formattedDate"] < today)}
        /\ UNCHANGED <<joinedCollection, articlesCollection, commentsCollection,
                       usersCollection, nextId, firebaseAdminInitialized, overlapped>>
        /\ inflight' = [slot \in 1..MaxInflight |->
                           IF slot = 1
                           THEN [Idle EXCEPT !.route = RRun, !.pc = g.to, !.call = g.call]
                           ELSE Idle]
        /\ req' = [NoReq EXCEPT !.route = RRun]
        /\ res' = [NoRes EXCEPT !.data = today]

\* index.js:184-200, 1073-1087: the process is (re)started on the day today.
\* The flag is false and the handles are null (194-200), the requests of the
\* process before it are gone, the MongoClient just constructed has no
\* topology; run() registers the routes and calls connectToMongoDB(), which
\* runs to its await of client.connect().  No collection is touched
Run(today, env) ==
    LET g == LoopHead(Call("run", StartupRetries, StartupDelay), env)
    IN  /\ ~env.topology
        /\ client' = env
        /\ dbConnected' = FALSE
        /\ handles' = {}
        /\ UNCHANGED <<store, firebaseAdminInitialized, overlapped>>
        /\ inflight' = [slot \in 1..MaxInflight |->
                           IF slot = 1
                           THEN [Idle EXCEPT !.route = RRun, !.pc = g.to, !.call = g.call]
                           ELSE Idle]
        /\ req' = [NoReq EXCEPT !.route = RRun]
        /\ res' = [NoRes EXCEPT !.data = today]

\* index.js:1078: the await that run()'s call of connectToMongoDB is suspended
\* at has ended, and the call runs to its next await or returns to run()
RunResumed(slot, env) ==
    LET a == inflight[slot]
        g == connectToMongoDB(a.pc, a.call, env)
    IN  /\ a.route = RRun
        /\ a.pc \in ConnectPcs
        /\ client' = env
        /\ dbConnected' = g.dbConnected
        /\ handles' = g.handles
        /\ UNCHANGED <<store, firebaseAdminInitialized, overlapped>>
        /\ inflight' = [inflight EXCEPT
                           ![slot] = [a EXCEPT !.pc = IF g.to \in {"true", "false"}
                                                      THEN "returned" ELSE g.to,
                                               !.call = g.call]]
        /\ req' = NoReq
        /\ res' = NoRes

----------------------------------------------------------------------------
(* Clients and request bodies *)

NoAuthorization == [scheme |-> "", cred |-> ""]
Bearer(token) == [scheme |-> "Bearer", cred |-> token]
Hdr(authorization, email, uid) ==
    [authorization |-> authorization, xUserEmail |-> email, userEmail |-> <<>>,
     xUserUid |-> uid, userUid |-> ""]

NoCredentials == Hdr(NoAuthorization, <<>>, "")
ClientA == Hdr(NoAuthorization, EmailA, "u1")
ClientB == Hdr(NoAuthorization, EmailB, "u2")
Clients == {NoCredentials, ClientA, ClientB}
\* A client that sends the ID token of A and no fallback headers
TokenA == Hdr(Bearer("tokA"), <<>>, "")

\* The store answers or it does not; the driver reports itself disconnected.
StoreUp == [topology |-> FALSE, up |-> TRUE, ping |-> TRUE, op |-> TRUE]
StoreDown == [topology |-> FALSE, up |-> FALSE, ping |-> FALSE, op |-> FALSE]
\* A ping is lost though the store would accept a connection
PingLost == [topology |-> FALSE, up |-> TRUE, ping |-> FALSE, op |-> TRUE]
\* The store is reachable but the operation waited for throws
OpLost == [topology |-> FALSE, up |-> TRUE, ping |-> TRUE, op |-> FALSE]
\* The store is reachable and the driver reports itself connected
DriverConnected == [topology |-> TRUE, up |-> TRUE, ping |-> TRUE, op |-> TRUE]
DbEnvs == {StoreUp, StoreDown, PingLost, OpLost, DriverConnected}

\* Bodies that carry one client-supplied ownership field
OwnershipBodies ==
    {[k \in {f} |-> EmailB] : f \in {"userEmail", "creatorEmail", "authorEmail"}}
    \cup {[k \in {f} |-> "u2"] : f \in {"userId", "creatorId", "authorId"}}

\* Bodies of the plain client
GroupBodies == {EmptyDoc, [groupName |-> "n1"]}
NewArticleBodies == {EmptyDoc, [title |-> "n1"]}
ArticleBodies == {EmptyDoc, [title |-> "n2"]}
CommentBodies == {EmptyDoc, [text |-> "n1"]}

ParentIds == SpelledIds(MaxParents) \cup {BadId}

\* Bodies of POST /joinGroup and POST /leaveGroup: with or without a groupId,
\* with a query operator in the place of the id string, and with the email of
\* somebody else beside it
LeaveBodies ==
    {EmptyDoc}
    \cup {[groupId |-> id] : id \in SpelledIds(MaxParents) \cup {NotNull}}
    \cup {[groupId |-> id, userEmail |-> e] : id \in SpelledIds(MaxParents), e \in Emails}

CommentIds == SpelledIds(MaxComments) \cup {BadId}
ArticleIds == SpelledIds(MaxArticles) \cup {BadId}

\* The ids of the stored documents as the server itself writes them
LowerIds == {id \in SpelledIds(MaxParents) : id.sp = "lower"}

\* Group bodies with and without a formattedDate; bodies of POST /save-user
DatedBodies == {EmptyDoc} \cup {[formattedDate |-> d] : d \in Days}
UserBodies == {EmptyDoc} \cup {[email |-> e] : e \in Emails}

\* Bodies of POST /save-user for one email, with and without a name and a photo
ProfileBodies ==
    {EmptyDoc, [email |-> EmailA], [email |-> EmailA, name |-> NameAlice],
     [email |-> EmailA, photo |-> "img"], [email |-> EmailB]}

\* Comment bodies that bring author fields of their own, or the text under the
\* name "comment"
AuthorBodies ==
    {[text |-> "n1", authorName |-> NameAlice], [text |-> "n1", authorImage |-> "img"],
     [comment |-> "n1"]}

\* The identity authenticateToken attaches for a client's headers
UserOf(h) == authenticateToken(h, TRUE).user

\* index.js:700-725: the article POST /articles stores for body {title} by user
StoredArticle(n, user) ==
    [_id |-> n, title |-> "n1", authorEmail |-> user.email, authorId |-> user.uid,
     userEmail |-> user.email, userId |-> user.uid,
     authorName |-> OrElseT(user.name, Anonymous), coverImage |-> PlaceholderImage,
     publishDate |-> Now, createdAt |-> Now]

\* The requests of a route by the clients hs
ToGroups(route, hs, ids, bodies) ==
    {Request(route, h, id, MissingId, body, <<>>) : h \in hs, id \in ids, body \in bodies}

\* POST /joinGroup and POST /leaveGroup, whose groupId is in the body
ToJoins(route, hs, bodies) ==
    {Request(route, h, GroupIdIn(body), MissingId, body, <<>>) : h \in hs, body \in bodies}

\* The body of a join or leave that names the group id, {} when it names none
JoinBody(id) == IF id = MissingId THEN EmptyDoc ELSE [groupId |-> id]

\* DELETE /articles/:id/comments/:commentId
ToComments(hs, ids, cids) ==
    {Request(RDeleteComment, h, id, cid, EmptyDoc, <<>>) : h \in hs, id \in ids, cid \in cids}

----------------------------------------------------------------------------
(* The bounds of the model *)

Slots == 1..MaxInflight

\* No request is under way
Quiet == \A slot \in Slots : Free(slot)

\* The requests under way at a route
Pending(route) ==
    Cardinality({slot \in Slots : ~Free(slot) /\ inflight[slot].route = route})

\* A request that may insert is sent while the store has room for the
\* document of every such request under way: MaxParents groups and articles,
\* so many comments, MaxJoins JoinRecords; a join of a pair the store
\* already records is sent at any time
RoomFor(request, comments) ==
    CASE request.route \in {RCreateGroup, RPostArticle} ->
            nextId.groups + nextId.articles + Pending(RCreateGroup) + Pending(RPostArticle)
               < MaxParents
      [] request.route = RPostComment ->
            nextId.comments + Pending(RPostComment) < comments
      [] request.route = RJoinGroup ->
            \/ BagCardinality(joinedCollection) + Pending(RJoinGroup) < MaxJoins
            \/ JoinsOf(joinedCollection, request.id,
                       Middleware(request.route, request.headers).user.email) # {}
      [] OTHER -> TRUE

\* Room for MaxComments comments, or for the MaxListed that a list of
\* comments is sorted from
Room(request) == RoomFor(request, MaxComments)

\* A request is sent and received
Arrives(slot, request, env) == Room(request) /\ Receive(slot, request, env)

----------------------------------------------------------------------------
(* The ten mutation routes, the store reachable *)

Init ==
    /\ firebaseAdminInitialized = TRUE
    /\ dbConnected \in BOOLEAN
    /\ handles = IF dbConnected THEN AllHandles ELSE {}
    /\ groupCollection = {}
    /\ joinedCollection = EmptyBag
    /\ articlesCollection = {}
    /\ commentsCollection = {}
    /\ usersCollection = {}
    /\ nextId = [groups |-> 0, articles |-> 0, comments |-> 0]
    /\ client = StoreUp
    /\ inflight = [slot \in Slots |-> Idle]
    /\ req = NoReq
    /\ res = NoRes
    /\ overlapped = FALSE

\* A client that sends a token that does not verify and no fallback headers
TokenBad == Hdr(Bearer("tokBad"), <<>>, "")

\* The requests to the ten mutation routes: each of them by a client that
\* sends no credentials, and by clients whose identity resolves
Unauthenticated ==
    ToGroups(RCreateGroup, {NoCredentials, TokenBad}, {MissingId}, {EmptyDoc})
    \cup ToGroups(RPutGroup, {NoCredentials}, LowerIds, {[groupName |-> "n1"]})
    \cup ToGroups(RDeleteGroup, {NoCredentials}, LowerIds, {EmptyDoc})
    \cup ToJoins(RJoinGroup, {NoCredentials}, {JoinBody(id) : id \in LowerIds})
    \cup ToJoins(RLeaveGroup, {NoCredentials}, {JoinBody(id) : id \in LowerIds})
    \cup ToGroups(RPostArticle, {NoCredentials}, {MissingId}, {[title |-> "n1"]})
    \cup ToGroups(RPutArticle, {NoCredentials}, LowerIds, {[title |-> "n2"]})
    \cup ToGroups(RDeleteArticle, {NoCredentials}, LowerIds, {EmptyDoc})
    \cup ToGroups(RPostComment, {NoCredentials, TokenBad}, LowerIds, {[text |-> "n1"]})
    \cup ToComments({NoCredentials}, LowerIds, LowerIds)

Mutations ==
    Unauthenticated
    \cup ToGroups(RCreateGroup, {ClientA, TokenA}, {MissingId}, {EmptyDoc})
    \cup ToGroups(RPutGroup, {ClientA}, LowerIds, {[groupName |-> "n1"]})
    \cup ToGroups(RDeleteGroup, {ClientA}, SpelledIds(MaxParents), {EmptyDoc})
    \cup ToJoins(RJoinGroup, {ClientA, ClientB}, {JoinBody(id) : id \in LowerIds})
    \cup ToJoins(RLeaveGroup, {ClientA}, {JoinBody(id) : id \in LowerIds})
    \cup ToGroups(RPostArticle, {ClientA}, {MissingId}, {[title |-> "n1"]})
    \cup ToGroups(RPutArticle, {ClientA}, LowerIds, {[title |-> "n2"]})
    \cup ToGroups(RDeleteArticle, {ClientA}, LowerIds, {EmptyDoc})
    \cup ToGroups(RPostComment, {ClientA}, LowerIds, {[text |-> "n1"]})
    \cup ToComments({ClientA, ClientB}, LowerIds, LowerIds)

Next ==
    \E slot \in Slots, env \in {StoreUp} :
        \/ \E request \in Mutations : Arrives(slot, request, env)
        \/ Verified(slot, env)
        \/ Guard(slot, env)
        \/ CreateGroup(slot, env)
        \/ PutGroup(slot, env)
        \/ DeleteGroup(slot, env)
        \/ JoinGroup(slot, env)
        \/ LeaveGroup(slot, env)
        \/ PostArticle(slot, env)
        \/ PutArticle(slot, env)
        \/ DeleteArticle(slot, env)
        \/ PostComment(slot, env)
        \/ DeleteComment(slot, env)

Spec == Init /\ [][Next]_vars

----------------------------------------------------------------------------
(* Groups and articles created and updated with arbitrary ownership fields *)

\* Bodies that bring an ownership field the handlers do not overwrite or strip
GroupOwnBodies == {[creatorId |-> "u2"], [authorEmail |-> EmailB]}
ArticleOwnBodies == {[creatorId |-> "u2"], [creatorEmail |-> EmailB]}

OwnRequests ==
    ToGroups(RCreateGroup, {ClientA}, {MissingId}, {EmptyDoc} \cup GroupOwnBodies)
    \cup ToGroups(RPutGroup, {ClientA, ClientB}, LowerIds,
                  {[groupName |-> "n1"], [authorEmail |-> EmailB]})
    \cup ToGroups(RDeleteGroup, {ClientA, ClientB}, LowerIds, {EmptyDoc})
    \cup ToGroups(RPostArticle, {ClientA}, {MissingId},
                  {[title |-> "n1"]}
                  \cup {Assign([title |-> "n1"], x) : x \in ArticleOwnBodies})
    \cup ToGroups(RPutArticle, {ClientA, ClientB}, LowerIds,
                  {[title |-> "n2"], [creatorEmail |-> EmailB]})
    \cup ToGroups(RDeleteArticle, {ClientA, ClientB}, LowerIds, {EmptyDoc})

NextOwn ==
    \E slot \in Slots, env \in {StoreUp} :
        \/ \E request \in OwnRequests : Arrives(slot, request, env)
        \/ Guard(slot, env)
        \/ CreateGroup(slot, env)
        \/ PutGroup(slot, env)
        \/ DeleteGroup(slot, env)
        \/ PostArticle(slot, env)
        \/ PutArticle(slot, env)
        \/ DeleteArticle(slot, env)

SpecOwn == Init /\ [][NextOwn]_vars

----------------------------------------------------------------------------
(* Overlapping join and leave requests *)

RaceRequests ==
    ToGroups(RCreateGroup, {ClientA}, {MissingId}, {EmptyDoc})
    \cup ToJoins(RJoinGroup, {ClientA, ClientB}, {JoinBody(id) : id \in LowerIds})
    \cup ToJoins(RLeaveGroup, {ClientA, ClientB}, LeaveBodies)

NextRace ==
    \E slot \in Slots, env \in {StoreUp} :
        \/ \E request \in RaceRequests : Arrives(slot, request, env)
        \/ Guard(slot, env)
        \/ CreateGroup(slot, env)
        \/ JoinGroup(slot, env)
        \/ LeaveGroup(slot, env)

SpecRace == Init /\ [][NextRace]_vars

----------------------------------------------------------------------------
(* Comments on the articles of two authors *)

\* Articles 1..MaxArticles are in the store, written by A and B in turn
InitComments ==
    /\ firebaseAdminInitialized = TRUE
    /\ dbConnected \in BOOLEAN
    /\ handles = IF dbConnected THEN AllHandles ELSE {}
    /\ groupCollection = {}
    /\ joinedCollection = EmptyBag
    /\ articlesCollection =
          {StoredArticle(n, UserOf(IF n % 2 = 1 THEN ClientA ELSE ClientB)) :
              n \in 1..MaxArticles}
    /\ commentsCollection = {}
    /\ usersCollection = {}
    /\ nextId = [groups |-> 0, articles |-> MaxArticles, comments |-> 0]
    /\ client = StoreUp
    /\ inflight = [slot \in Slots |-> Idle]
    /\ req = NoReq
    /\ res = NoRes
    /\ overlapped = FALSE

\* The ids of the stored articles as the server itself writes them
ArticleLowerIds == {id \in SpelledIds(MaxArticles) : id.sp = "lower"}

CommentRequests ==
    ToGroups(RPostComment, {ClientA, ClientB}, ArticleLowerIds,
             {[text |-> "n1"], [text |-> "n1", authorName |-> NameAlice]})
    \cup ToGroups(RPostComment, {NoCredentials}, ArticleLowerIds, {[text |-> "n1"]})
    \cup ToComments({ClientA, ClientB}, ArticleLowerIds, LowerIds)
    \cup ToGroups(RDeleteArticle, {ClientA, ClientB}, ArticleLowerIds, {EmptyDoc})
    \cup ToGroups(RGetArticles, {NoHeaders}, {MissingId}, {EmptyDoc})
    \cup ToGroups(RGetArticle, {NoHeaders}, LowerIds \cup {BadId}, {EmptyDoc})

NextComments ==
    \E slot \in Slots, env \in {StoreUp} :
        \/ \E request \in CommentRequests : Arrives(slot, request, env)
        \/ Guard(slot, env)
        \/ PostComment(slot, env)
        \/ DeleteComment(slot, env)
        \/ DeleteArticle(slot, env)
        \/ GetArticles(slot, env)
        \/ GetArticle(slot, env)

SpecComments == InitComments /\ [][NextComments]_vars

----------------------------------------------------------------------------
(* The connection guard under the states of the driver and the store *)

DbRequests ==
    ToGroups(RCreateGroup, {ClientA}, {MissingId}, {EmptyDoc})
    \cup ToGroups(RDeleteGroup, {ClientA}, LowerIds, {EmptyDoc})
    \cup ToJoins(RJoinGroup, {ClientA}, {JoinBody(id) : id \in LowerIds})
    \cup ToGroups(RPostArticle, {ClientA}, {MissingId}, {[title |-> "n1"]})
    \cup ToGroups(RDeleteArticle, {ClientA}, LowerIds, {EmptyDoc})

NextDb ==
    \E slot \in Slots, env \in DbEnvs :
        \/ \E request \in DbRequests : Arrives(slot, request, env)
        \/ Guard(slot, env)
        \/ CreateGroup(slot, env)
        \/ DeleteGroup(slot, env)
        \/ JoinGroup(slot, env)
        \/ PostArticle(slot, env)
        \/ DeleteArticle(slot, env)

SpecDb == Init /\ [][NextDb]_vars

\* index.js:1073-1085: start-up has connected
InitConnected == Init /\ dbConnected

\* A step of the request in the slot
GuardStep(slot) ==
    \E env \in DbEnvs :
        \/ Guard(slot, env)
        \/ CreateGroup(slot, env)
        \/ JoinGroup(slot, env)

\* Requests that pass authentication
GuardRequests ==
    ToGroups(RCreateGroup, {ClientA}, {MissingId}, {EmptyDoc})
    \cup ToJoins(RJoinGroup, {ClientA}, {JoinBody(id) : id \in SpelledIds(MaxParents)})

NextGuard ==
    \/ \E slot \in Slots, env \in DbEnvs, request \in GuardRequests :
          Arrives(slot, request, env)
    \/ \E slot \in Slots : GuardStep(slot)

\* A server that started connected, with requests that keep arriving: the
\* event loop resumes every request whose await has ended
SpecGuard ==
    /\ InitConnected
    /\ [][NextGuard]_vars
    /\ WF_vars(NextGuard)
    /\ \A slot \in Slots : WF_vars(GuardStep(slot))

----------------------------------------------------------------------------
(* The dashboard over users and groups, and the fetch of one group *)

ReadRequests ==
    ToGroups(RCreateGroup, {ClientA}, {MissingId}, DatedBodies)
    \cup {Request(RSaveUser, NoHeaders, MissingId, MissingId, body, <<>>) :
             body \in UserBodies}
    \cup {Request(RDashboardStats, NoHeaders, MissingId, MissingId, EmptyDoc, <<>>)}

NextRead ==
    \/ \E slot \in Slots, env \in {StoreUp} :
          \/ \E request \in ReadRequests : Arrives(slot, request, env)
          \/ Guard(slot, env)
          \/ CreateGroup(slot, env)
          \/ \E today \in Days : SaveUser(slot, today, env)
          \/ DashboardStats(slot, env)
    \/ \E id \in LowerIds : Unrouted(RGetGroup, id)

SpecRead == Init /\ [][NextRead]_vars

----------------------------------------------------------------------------
(* Overlapping POST /save-user requests *)

NextUsers ==
    \E slot \in Slots, env \in {StoreUp} :
        \/ \E body \in ProfileBodies :
              Arrives(slot, Request(RSaveUser, NoHeaders, MissingId, MissingId, body, <<>>),
                      env)
        \/ Arrives(slot, Request(RTotalUsers, NoHeaders, MissingId, MissingId, EmptyDoc, <<>>),
                   env)
        \/ Guard(slot, env)
        \/ \E today \in Days : SaveUser(slot, today, env)
        \/ TotalUsers(slot, env)

SpecUsers == Init /\ [][NextUsers]_vars

----------------------------------------------------------------------------
(* The list of a user's joins *)

JoinedRequests ==
    ToGroups(RCreateGroup, {ClientA}, {MissingId}, {EmptyDoc})
    \cup ToJoins(RJoinGroup, {ClientA, ClientB},
                 {JoinBody(id) : id \in SpelledIds(MaxParents)})
    \cup {Request(RUserJoinedGroups, h, MissingId, MissingId, EmptyDoc, query) :
             h \in Clients, query \in Emails \cup {<<>>}}
    \cup {Request(RGetGroups, NoHeaders, MissingId, MissingId, EmptyDoc, query) :
             query \in {EmailA, <<>>}}
    \cup ToGroups(RGroupsByIds, {NoHeaders}, {MissingId},
                  {EmptyDoc} \cup {[ids |-> <<id>>] : id \in LowerIds \cup {BadId}})

NextJoined ==
    \E slot \in Slots, env \in {StoreUp} :
        \/ \E request \in JoinedRequests : Arrives(slot, request, env)
        \/ Guard(slot, env)
        \/ CreateGroup(slot, env)
        \/ JoinGroup(slot, env)
        \/ UserJoinedGroups(slot, env)
        \/ GetGroups(slot, env)
        \/ GroupsByIds(slot, env)

SpecJoined == Init /\ [][NextJoined]_vars

----------------------------------------------------------------------------
(* Dated groups over restarts of the process and the passing of days *)

FrameRequests ==
    ToGroups(RCreateGroup, {ClientA}, {MissingId}, DatedBodies)
    \cup ToGroups(RPutGroup, {ClientA}, LowerIds, {[groupName |-> "n1"]})
    \cup ToGroups(RDeleteGroup, {ClientA, ClientB}, LowerIds, {EmptyDoc})
    \cup ToJoins(RJoinGroup, {ClientA}, {JoinBody(id) : id \in LowerIds})
    \cup ToJoins(RLeaveGroup, {ClientA}, {JoinBody(id) : id \in LowerIds})

NextFrame ==
    \/ \E env \in {StoreUp, StoreDown} :
          \/ \E today \in Days : Run(today, env)
          \/ RunResumed(1, env)
    \/ \E slot \in Slots, env \in {StoreUp} :
          \/ \E request \in FrameRequests : Arrives(slot, request, env)
          \/ Guard(slot, env)
          \/ CreateGroup(slot, env)
          \/ PutGroup(slot, env)
          \/ DeleteGroup(slot, env)
          \/ JoinGroup(slot, env)
          \/ LeaveGroup(slot, env)
    \/ Unrouted(RCleanup, MissingId)

SpecFrame == Init /\ [][NextFrame]_vars

----------------------------------------------------------------------------
(* Updates, deletes, joins and comments that overlap on one group or article *)

OverlapRequests ==
    ToGroups(RCreateGroup, {ClientA}, {MissingId}, {EmptyDoc})
    \cup ToGroups(RPostArticle, {ClientA}, {MissingId}, {[title |-> "n1"]})
    \cup ToJoins(RJoinGroup, {ClientA, ClientB}, {JoinBody(id) : id \in LowerIds})
    \cup ToGroups(RPutGroup, {ClientA, ClientB}, LowerIds, {[groupName |-> "n1"]})
    \cup ToGroups(RDeleteGroup, {ClientA, ClientB}, LowerIds, {EmptyDoc})
    \cup ToGroups(RPutArticle, {ClientA, ClientB}, LowerIds, {[title |-> "n2"]})
    \cup ToGroups(RDeleteArticle, {ClientA, ClientB}, LowerIds, {EmptyDoc})
    \cup ToGroups(RPostComment, {ClientA, ClientB}, LowerIds, {[text |-> "n1"]})

NextOverlap ==
    \E slot \in Slots, env \in {StoreUp} :
        \/ \E request \in OverlapRequests : Arrives(slot, request, env)
        \/ Guard(slot, env)
        \/ CreateGroup(slot, env)
        \/ PostArticle(slot, env)
        \/ JoinGroup(slot, env)
        \/ PutGroup(slot, env)
        \/ DeleteGroup(slot, env)
        \/ PutArticle(slot, env)
        \/ DeleteArticle(slot, env)
        \/ PostComment(slot, env)

SpecOverlap == Init /\ [][NextOverlap]_vars

----------------------------------------------------------------------------
(* The eleven routes that write, by clients whose requests are authenticated *)

\* The ids of these requests: well-formed as the server writes them, or malformed
ErrIds == LowerIds \cup {BadId}

ErrRequests ==
    ToGroups(RCreateGroup, {ClientA}, {MissingId}, {EmptyDoc})
    \cup ToGroups(RPutGroup, {ClientA, ClientB}, LowerIds, {[groupName |-> "n1"]})
    \cup ToGroups(RDeleteGroup, {ClientA}, ErrIds, {EmptyDoc})
    \cup ToGroups(RDeleteGroup, {ClientB}, LowerIds, {EmptyDoc})
    \cup ToJoins(RJoinGroup, {ClientA}, {JoinBody(id) : id \in ErrIds \cup {MissingId}})
    \cup ToJoins(RJoinGroup, {ClientB}, {JoinBody(id) : id \in LowerIds})
    \cup ToJoins(RLeaveGroup, {ClientA}, {JoinBody(id) : id \in LowerIds \cup {MissingId}})
    \cup ToGroups(RPostArticle, {ClientA}, {MissingId}, NewArticleBodies)
    \cup ToGroups(RPutArticle, {ClientA, ClientB}, LowerIds, {[title |-> "n2"]})
    \cup ToGroups(RDeleteArticle, {ClientA, ClientB}, LowerIds, {EmptyDoc})
    \cup ToGroups(RPostComment, {ClientA}, LowerIds, CommentBodies)
    \cup ToComments({ClientA, ClientB}, LowerIds, LowerIds)
    \cup {Request(RSaveUser, NoHeaders, MissingId, MissingId, body, <<>>) :
             body \in {EmptyDoc, [email |-> EmailA]}}

\* The driver reports itself connected and the store answers: a process that
\* started connected passes every request to its handler after the ping, and
\* one that did not answers 503 from the guard (index.js:204-219) without a
\* connection attempt
NextErr ==
    \E slot \in Slots, env \in {DriverConnected} :
        \/ \E request \in ErrRequests : Arrives(slot, request, env)
        \/ CreateGroup(slot, env)
        \/ PutGroup(slot, env)
        \/ DeleteGroup(slot, env)
        \/ JoinGroup(slot, env)
        \/ LeaveGroup(slot, env)
        \/ PostArticle(slot, env)
        \/ PutArticle(slot, env)
        \/ DeleteArticle(slot, env)
        \/ PostComment(slot, env)
        \/ DeleteComment(slot, env)
        \/ SaveUser(slot, MaxDays, env)

SpecErr == Init /\ [][NextErr]_vars

----------------------------------------------------------------------------
(* authenticateToken on every combination of headers *)

\* A request with any of the header combinations has reached the middleware
\* of a process whose verifier is or is not initialized
InitAuth ==
    /\ firebaseAdminInitialized \in BOOLEAN
    /\ dbConnected = TRUE
    /\ handles = AllHandles
    /\ groupCollection = {}
    /\ joinedCollection = EmptyBag
    /\ articlesCollection = {}
    /\ commentsCollection = {}
    /\ usersCollection = {}
    /\ nextId = [groups |-> 0, articles |-> 0, comments |-> 0]
    /\ client = StoreUp
    /\ \E h \in Headers :
          inflight = [slot \in Slots |->
                        IF slot = 1
                        THEN [Request(RAuthOnly, h, MissingId, MissingId, EmptyDoc, <<>>)
                                 EXCEPT !.pc = "authenticateToken"]
                        ELSE Idle]
    /\ req = NoReq
    /\ res = NoRes
    /\ overlapped = FALSE

NextAuth == \E slot \in Slots : AuthOnly(slot)

SpecAuth == InitAuth /\ [][NextAuth]_vars

----------------------------------------------------------------------------
(* Store operations that throw inside a handler *)

StoreRequests ==
    ToGroups(RCreateGroup, {ClientA}, {MissingId}, {EmptyDoc})
    \cup ToJoins(RJoinGroup, {ClientA}, {JoinBody(id) : id \in LowerIds \cup {BadId}})
    \cup ToJoins(RLeaveGroup, {ClientA}, {JoinBody(id) : id \in LowerIds})

\* Creating, joining and leaving one group while store operations may throw
NextStore ==
    \E slot \in Slots, env \in {StoreUp, StoreDown, OpLost} :
        \/ \E request \in StoreRequests : Arrives(slot, request, env)
        \/ Guard(slot, env)
        \/ CreateGroup(slot, env)
        \/ JoinGroup(slot, env)
        \/ LeaveGroup(slot, env)

SpecStore == Init /\ [][NextStore]_vars

----------------------------------------------------------------------------
(* Requests served to their response *)

\* The clients and the group ids of these requests
ServeClients == {NoCredentials, TokenA}
ServeIds == LowerIds \cup {BadId}

ServeRequests ==
    ToGroups(RCreateGroup, {TokenA}, {MissingId}, {EmptyDoc})
    \cup ToJoins(RJoinGroup, ServeClients, {JoinBody(id) : id \in ServeIds \cup {MissingId}})
    \cup ToJoins(RLeaveGroup, {TokenA}, {JoinBody(id) : id \in LowerIds \cup {MissingId}})

\* index.js:99, 224, 1039-1060 and every await of a handler: the request in
\* the slot goes on when what it waits for has answered or has thrown
Resume(slot) ==
    \E env \in {StoreUp, StoreDown} :
        \/ Verified(slot, env)
        \/ Guard(slot, env)
        \/ CreateGroup(slot, env)
        \/ JoinGroup(slot, env)
        \/ LeaveGroup(slot, env)

\* Requests to registered and unregistered paths, with bodies express.json()
\* refuses, with a store that comes and goes, and requests that overlap
NextServe ==
    \/ \E route \in {RCreateGroup, RCleanup}, outcome \in BodyOutcomes :
          GlobalErrorHandler(route, TokenA, MissingId, outcome)
    \/ \E route \in {RGetGroup, RCleanup}, id \in LowerIds : Unrouted(route, id)
    \/ \E slot \in Slots, env \in {StoreUp, StoreDown}, request \in ServeRequests :
          Arrives(slot, request, env)
    \/ \E slot \in Slots : Resume(slot)

\* The event loop resumes every suspended handler: verifyIdToken and the store
\* answer each call, or the driver's timeout makes it throw (index.js:188-189)
SpecServe ==
    /\ Init
    /\ [][NextServe]_vars
    /\ \A slot \in Slots : WF_vars(Resume(slot))

----------------------------------------------------------------------------
(* connectToMongoDB at start-up, beside the requests *)

\* index.js:1073-1087: run() has registered the routes and called
\* connectToMongoDB(), which waits for client.connect(); the server listens
InitStartup ==
    /\ firebaseAdminInitialized = TRUE
    /\ dbConnected = FALSE
    /\ handles = {}
    /\ groupCollection = {}
    /\ joinedCollection = EmptyBag
    /\ articlesCollection = {}
    /\ commentsCollection = {}
    /\ usersCollection = {}
    /\ nextId = [groups |-> 0, articles |-> 0, comments |-> 0]
    /\ client = StoreDown
    /\ inflight = [slot \in Slots |->
                      IF slot = 1
                      THEN [Idle EXCEPT !.route = RRun, !.pc = "connect",
                                        !.call = Call("run", StartupRetries, StartupDelay)]
                      ELSE Idle]
    /\ req = [NoReq EXCEPT !.route = RRun]
    /\ res = NoRes
    /\ overlapped = FALSE

\* The driver and the store as an attempt or a guard may find them
StartupEnvs == {StoreUp, StoreDown, DriverConnected}

\* A step of run()'s call of connectToMongoDB
LoopStep(slot) == \E env \in StartupEnvs : RunResumed(slot, env)

StartupRequests ==
    ToGroups(RCreateGroup, {ClientA}, {MissingId}, {EmptyDoc})
    \cup ToJoins(RJoinGroup, {ClientA}, {JoinBody(id) : id \in LowerIds \cup {MissingId}})

\* The start-up loop, and requests that arrive while it runs and after it
NextStartup ==
    \/ LoopStep(1)
    \/ \E slot \in Slots, env \in StartupEnvs :
          \/ \E request \in StartupRequests : Arrives(slot, request, env)
          \/ Guard(slot, env)
          \/ CreateGroup(slot, env)
          \/ JoinGroup(slot, env)

\* connect and ping end by the driver's timeouts (index.js:188-189) and the
\* timer of the wait fires
SpecStartup ==
    /\ InitStartup
    /\ [][NextStartup]_vars
    /\ WF_vars(LoopStep(1))

----------------------------------------------------------------------------
(* isCreator on every resource and identity *)

RIsCreator == "isCreator"

EmailFields == {"userEmail", "creatorEmail", "authorEmail"}
IdFields == {"userId", "creatorId", "authorId"}
Absent == "absent"

\* The resource that has the fields the two maps give a value, and a title
\* if asked for
ResourceOf(emails, ids, titled) ==
    LET fields == {f \in EmailFields : emails[f] # Absent}
                  \cup {f \in IdFields : ids[f] # Absent}
                  \cup (IF titled THEN {"title"} ELSE {})
    IN  [f \in fields |-> IF f \in EmailFields THEN emails[f]
                          ELSE IF f \in IdFields THEN ids[f]
                          ELSE "u1"]

\* Resources with each ownership field absent, empty, or somebody's
Resources ==
    {ResourceOf(emails, ids, titled) :
        emails \in [EmailFields -> {Absent, <<>>, EmailA, EmailB}],
        ids \in [IdFields -> {Absent, "", "u1", "u2"}],
        titled \in BOOLEAN}

\* The identities of a request: with or without an email, with or without a uid
Identities == [uid : {"", "u1"}, email : {<<>>, EmailA}, name : {<<>>}]

\* A document is about to be checked against the identity of a request
InitCreator ==
    /\ firebaseAdminInitialized = TRUE
    /\ dbConnected = TRUE
    /\ handles = AllHandles
    /\ groupCollection \in {{Assign(r, [_id |-> 1])} : r \in Resources}
    /\ joinedCollection = EmptyBag
    /\ articlesCollection = {}
    /\ commentsCollection = {}
    /\ usersCollection = {}
    /\ nextId = [groups |-> 1, articles |-> 0, comments |-> 0]
    /\ client = StoreUp
    /\ inflight = [slot \in Slots |-> Idle]
    /\ req = NoReq
    /\ res \in {[NoRes EXCEPT !.user = user] : user \in Identities}
    /\ overlapped = FALSE

\* index.js:361, 147-171: isCreator(group, req.user.email, req.user.uid), its
\* result recorded as the status it leads to
IsCreatorCall ==
    /\ res.responses = 0
    /\ \E group \in groupCollection :
          res' = [res EXCEPT !.status = IF isCreator(group, res.user.email, res.user.uid)
                                        THEN 200 ELSE 403,
                             !.responses = 1]
    /\ req' = [NoReq EXCEPT !.route = RIsCreator]
    /\ UNCHANGED <<firebaseAdminInitialized, dbConnected, handles, store, client, inflight, overlapped>>

SpecCreator == InitCreator /\ [][IsCreatorCall]_vars

----------------------------------------------------------------------------
(* Parents and children under either spelling of an id *)

SpellRequests ==
    ToGroups(RCreateGroup, {ClientA}, {MissingId}, {EmptyDoc})
    \cup ToGroups(RPostArticle, {ClientA}, {MissingId}, {[title |-> "n1"]})
    \cup ToJoins(RJoinGroup, {ClientA}, {JoinBody(id) : id \in SpelledIds(MaxParents)})
    \cup ToGroups(RPostComment, {ClientA}, SpelledIds(MaxParents),
                  {[text |-> "n1"], [text |-> "n1", timestamp |-> Earlier]})
    \cup ToGroups(RDeleteGroup, {ClientA}, SpelledIds(MaxParents), {EmptyDoc})
    \cup ToGroups(RDeleteArticle, {ClientA}, SpelledIds(MaxParents), {EmptyDoc})
    \cup ToGroups(RGetComments, {NoHeaders}, SpelledIds(MaxParents), {EmptyDoc})

\* One client creates a group or an article, joins or comments, reads the
\* comments and deletes the parent, spelling the id in lower or upper case
NextSpell ==
    \E slot \in Slots, env \in {StoreUp} :
        \/ \E request \in SpellRequests :
              RoomFor(request, MaxListed) /\ Receive(slot, request, env)
        \/ Guard(slot, env)
        \/ CreateGroup(slot, env)
        \/ PostArticle(slot, env)
        \/ JoinGroup(slot, env)
        \/ PostComment(slot, env)
        \/ DeleteGroup(slot, env)
        \/ DeleteArticle(slot, env)
        \/ GetComments(slot, env)

SpecSpell == Init /\ [][NextSpell]_vars

----------------------------------------------------------------------------
(* What the claims speak of, stated without the handlers' own helpers *)

\* The fallback headers of a request, under either of their two names
FallbackEmail(h) == IF h.xUserEmail # <<>> THEN h.xUserEmail ELSE h.userEmail
FallbackUid(h) == IF h.xUserUid # "" THEN h.xUserUid ELSE h.userUid
BothFallbackHeaders(h) == FallbackEmail(h) # <<>> /\ FallbackUid(h) # ""

\* The bearer token of a request, "" when it carries none
TokenOf(h) == IF h.authorization.scheme = "Bearer" THEN h.authorization.cred ELSE ""
TokenVerifies(h) ==
    TokenOf(h) # "" /\ firebaseAdminInitialized /\ verifyIdToken(TokenOf(h)).ok

\* The part of an email before its first '@' (all of it when it has none)
BeforeAt(e) ==
    LET ats == {i \in 1..Len(e) : e[i] = "@"}
        first == IF ats = {} THEN Len(e) + 1
                 ELSE CHOOSE i \in ats : \A j \in ats : i <= j
    IN  SubSeq(e, 1, first - 1)

\* One of the six ownership fields of document d names the identity
Owns(d, user) ==
    \/ \E f \in {"userEmail", "creatorEmail", "authorEmail"} :
          f \in DOMAIN d /\ d[f] # <<>> /\ d[f] = user.email
    \/ \E f \in {"userId", "creatorId", "authorId"} :
          f \in DOMAIN d /\ d[f] # "" /\ d[f] = user.uid

\* The email and uid the fallback headers of a request claim
Claimed(h) == [email |-> FallbackEmail(h), uid |-> FallbackUid(h)]

\* The request of the slot takes a turn in this step: it arrives and is
\* suspended, is resumed, or is answered after it was suspended
Stepping(slot) == inflight'[slot].pc # inflight[slot].pc

\* The request of the slot, a request to the route, is resumed at the await
Resumes(slot, route, pc) ==
    /\ inflight[slot].route = route
    /\ inflight[slot].pc = pc
    /\ Stepping(slot)

\* The step sends the response of a request to the route
Responds(route) == req'.route = route /\ res'.responses = 1

\* The request of the slot is past the guard, at an await of its handler
InHandler(slot) ==
    /\ inflight[slot].route \in Registered
    /\ inflight[slot].pc \notin {"idle", "verifyIdToken"} \cup GuardPcs

----------------------------------------------------------------------------
(* C5 *)

\* C5: a request that carries both fallback headers and a bearer token that
\* verifies is resolved to the headers' uid and email, with the part of the
\* header email before '@' as name; the token's claims are not used.
C5_FallbackPrecedence ==
    (/\ req.route = RAuthOnly
     /\ BothFallbackHeaders(req.headers)
     /\ TokenVerifies(req.headers))
    => /\ res.next = 1
       /\ res.responses = 0
       /\ res.user = [uid |-> FallbackUid(req.headers),
                      email |-> FallbackEmail(req.headers),
                      name |-> BeforeAt(FallbackEmail(req.headers))]

\* A valid token of B beside the fallback headers of A resolves to A
C5_Witness ==
    /\ req.route = RAuthOnly
    /\ firebaseAdminInitialized
    /\ req.headers.authorization = Bearer("tokB")
    /\ req.headers.xUserEmail = EmailA
    /\ req.headers.xUserUid = "u1"
    /\ res.next = 1
    /\ res.user.email = EmailA

----------------------------------------------------------------------------
(* C6 *)

\* C6: the ID token is the primary credential: a request whose bearer token
\* verifies is identified by the token's claims whatever fallback headers it
\* carries, so two requests with the same valid token resolve alike.
C6_TokenIsPrimary ==
    (req.route = RAuthOnly /\ TokenVerifies(req.headers))
    => /\ res.next = 1
       /\ res.user.uid = verifyIdToken(TokenOf(req.headers)).uid
       /\ res.user.email = verifyIdToken(TokenOf(req.headers)).email

----------------------------------------------------------------------------
(* C8 *)

\* C8: authenticateToken either attaches an identity and calls next, or
\* responds 401, never both and never neither; it attaches an identity iff
\* both fallback headers are present or the token verifies; without token and
\* email header the 401 says that no credentials were provided, and with an
\* unverified token and no email header it says that verification failed.
C8_OneOutcome ==
    req.route = RAuthOnly =>
        /\ res.next + res.responses = 1
        /\ res.next = 1 <=> (BothFallbackHeaders(req.headers) \/ TokenVerifies(req.headers))
        /\ res.next = 1 => res.status = 0 /\ res.user # NoUser
        /\ res.next = 0 => res.status = 401 /\ res.user = NoUser
        /\ (TokenOf(req.headers) = "" /\ FallbackEmail(req.headers) = <<>>)
              => res.status = 401 /\ res.error = MsgNoCreds
        /\ (/\ TokenOf(req.headers) # ""
            /\ ~TokenVerifies(req.headers)
            /\ FallbackEmail(req.headers) = <<>>)
              => res.status = 401 /\ res.error = MsgTokenFailed

\* A token that does not verify, with a uid header but no email header
C8_Witness ==
    /\ req.route = RAuthOnly
    /\ TokenOf(req.headers) = "tokBad"
    /\ FallbackEmail(req.headers) = <<>>
    /\ FallbackUid(req.headers) = "u1"
    /\ res.status = 401
    /\ res.error = MsgTokenFailed

----------------------------------------------------------------------------
(* C1 *)

\* The request answered by this step reached its handler, found the store
\* reachable and named, with a well-formed id, a document the collection held
Targets(route, coll) ==
    /\ req'.route = route
    /\ res'.next = 1
    /\ res'.status # 503
    /\ ObjectIdIsValid(req'.id)
    /\ \E d \in coll : d["_id"] = ObjectId(req'.id)

Target(coll) == CHOOSE d \in coll : d["_id"] = ObjectId(req'.id)

Updated(coll, collAfter) ==
    \E d \in collAfter :
        /\ d["_id"] = Target(coll)["_id"]
        /\ "updatedAt" \in DOMAIN d
        /\ collAfter \ {d} = coll \ {Target(coll)}

\* An update, which writes in the turn that answers
OwnerOnly(route, coll, collAfter) ==
    Targets(route, coll) =>
        IF Owns(Target(coll), res'.user)
        THEN res'.status = 200 /\ Updated(coll, collAfter)
        ELSE res'.status = 403 /\ store' = store

\* The document the request of the slot names, if the collection holds it
Named(slot, coll) == {d \in coll : d["_id"] = ObjectId(inflight[slot].id)}

\* A delete, which reads the document, deletes it and cascades in three
\* turns: the lookup goes on to the deleteOne iff the requester owns the
\* document and else answers 403; the deleteOne is made only by an owner and
\* removes the document; the turn after the cascade answers 200
OwnerOnlyDeletes(route, coll, collAfter) ==
    \A slot \in Slots :
        /\ (Resumes(slot, route, "findOne") /\ Named(slot, coll) # {})
              => /\ store' = store
                 /\ IF \E d \in Named(slot, coll) : Owns(d, Claimed(inflight[slot].headers))
                    THEN inflight'[slot].pc = "deleteOne" /\ res'.responses = 0
                    ELSE Responds(route) /\ res'.status = 403
        /\ (Resumes(slot, route, "deleteOne") /\ Named(slot, coll) # {})
              => /\ \A d \in Named(slot, coll) : Owns(d, Claimed(inflight[slot].headers))
                 /\ collAfter = coll \ Named(slot, coll)
                 /\ inflight'[slot].pc = "deleteMany"
                 /\ res'.responses = 0
        /\ Resumes(slot, route, "deleteMany")
              => /\ Responds(route)
                 /\ res'.status = 200
                 /\ collAfter = coll
                 /\ Named(slot, coll) = {}

\* C1: as long as no request has overlapped another, an update or delete of a
\* stored group or article, with the store reachable and a well-formed id,
\* responds 200 and is applied iff one of the six ownership fields of the
\* document names the requester's email or uid; otherwise it responds 403 and
\* nothing changes.
C1_OwnerOnly ==
    [][~overlapped' =>
          /\ OwnerOnly(RPutGroup, groupCollection, groupCollection')
          /\ OwnerOnlyDeletes(RDeleteGroup, groupCollection, groupCollection')
          /\ OwnerOnly(RPutArticle, articlesCollection, articlesCollection')
          /\ OwnerOnlyDeletes(RDeleteArticle, articlesCollection, articlesCollection')]_vars

\* B, whom only the creatorId of A's group names, has updated the group, and
\* no request has overlapped another
C1_Witness ==
    /\ ~overlapped
    /\ req.route = RPutGroup
    /\ res.status = 200
    /\ res.user.email = EmailB
    /\ \E g \in groupCollection :
          /\ g["userEmail"] = EmailA
          /\ "creatorId" \in DOMAIN g
          /\ "updatedAt" \in DOMAIN g

----------------------------------------------------------------------------
(* C2 *)

SameOwnership(d, e) ==
    \A f \in OwnershipFields :
        /\ f \in DOMAIN d <=> f \in DOMAIN e
        /\ f \in DOMAIN d => d[f] = e[f]

OwnershipKept(coll, collAfter) ==
    \A d \in coll, e \in collAfter : d["_id"] = e["_id"] => SameOwnership(d, e)

\* C2: no update request changes, adds or removes any of the six ownership
\* fields of a stored group or article.
C2_OwnershipWriteOnce ==
    [][/\ OwnershipKept(groupCollection, groupCollection')
       /\ OwnershipKept(articlesCollection, articlesCollection')]_vars

----------------------------------------------------------------------------
(* C3 *)

StampedFrom(d, user) ==
    /\ \A f \in {"userEmail", "creatorEmail", "authorEmail"} \cap DOMAIN d :
          d[f] = user.email
    /\ \A f \in {"userId", "creatorId", "authorId"} \cap DOMAIN d : d[f] = user.uid

\* C3: every ownership field of a document just created equals the email or
\* the uid of the identity that created it.
C3_CreatedOwnedByCreator ==
    [][/\ (req'.route = RCreateGroup /\ res'.status = 201)
            => \A d \in groupCollection' \ groupCollection : StampedFrom(d, res'.user)
       /\ (req'.route = RPostArticle /\ res'.status = 201)
            => \A d \in articlesCollection' \ articlesCollection :
                  StampedFrom(d, res'.user)]_vars

----------------------------------------------------------------------------
(* C4 *)

\* The id string of the document a request names: its 24 hex digits in lower
\* case, as the server writes them
IdNamed(id) == [n |-> ObjectId(id), sp |-> "lower"]

\* C4: once DELETE /groups/:id has responded 200 for a group, no JoinRecord
\* whose groupId is that group's id remains, and once DELETE /articles/:id has
\* responded 200 for an article, no Comment whose articleId is its id remains.
C4_CascadeComplete ==
    [][/\ (Responds(RDeleteGroup) /\ res'.status = 200)
            => \A r \in BagToSet(joinedCollection') : r.groupId # IdNamed(req'.id)
       /\ (Responds(RDeleteArticle) /\ res'.status = 200)
            => \A c \in commentsCollection' : c["articleId"] # IdNamed(req'.id)]_vars

----------------------------------------------------------------------------
(* C7 *)

ResolutionFails(h) == ~BothFallbackHeaders(h) /\ ~TokenVerifies(h)

\* A request to a mutation route whose identity cannot be resolved waits for
\* verifyIdToken if it waits at all: it is never in the guard or in a handler
Unresolved401 ==
    \A slot \in Slots :
        (/\ inflight[slot].route \in MutationRoutes
         /\ inflight[slot].pc # "idle"
         /\ ResolutionFails(inflight[slot].headers))
        => inflight[slot].pc = "verifyIdToken"

\* Its answer is the 401 of the middleware, and no turn of it changes a
\* collection or the connection state
UnresolvedStep ==
    /\ (req'.route \in MutationRoutes /\ ResolutionFails(req'.headers))
          => /\ res'.status = 401
             /\ res'.next = 0
             /\ store' = store
             /\ dbConnected' = dbConnected
             /\ handles' = handles
    /\ \A slot \in Slots :
          (/\ Stepping(slot)
           /\ inflight'[slot].route \in MutationRoutes
           /\ ResolutionFails(inflight'[slot].headers))
          => /\ store' = store
             /\ dbConnected' = dbConnected
             /\ handles' = handles

\* C7: a request to a mutation route whose identity cannot be resolved is
\* answered 401 by the middleware; its handler does not run, so neither the
\* collections nor the connection state change.
C7_Unauthenticated401 == []Unresolved401 /\ [][UnresolvedStep]_vars

\* A comment posted with a token that does not verify, on an existing article,
\* is refused
C7_Witness ==
    /\ req.route = RPostComment
    /\ TokenOf(req.headers) = "tokBad"
    /\ ResolutionFails(req.headers)
    /\ ObjectIdIsValid(req.id)
    /\ \E a \in articlesCollection : a["_id"] = ObjectId(req.id)
    /\ res.status = 401
    /\ commentsCollection = {}

----------------------------------------------------------------------------
(* C9 *)

HasJoined(bag, groupId, email) ==
    \E r \in BagToSet(bag) : r.groupId = groupId /\ r.userEmail = email

OneJoinPerPair ==
    \A r \in BagToSet(joinedCollection) :
        /\ CopiesIn(r, joinedCollection) = 1
        /\ \A q \in BagToSet(joinedCollection) :
              (q.groupId = r.groupId /\ q.userEmail = r.userEmail) => q = r

JoinOnce ==
    /\ (/\ Responds(RJoinGroup)
        /\ res'.next = 1
        /\ res'.status # 503
        /\ req'.id # MissingId)
       => IF HasJoined(joinedCollection, req'.id, res'.user.email)
          THEN res'.status = 409 /\ store' = store
          ELSE (/\ ObjectIdIsValid(req'.id)
                /\ \E g \in groupCollection : g["_id"] = ObjectId(req'.id))
               => /\ res'.status = 201
                  /\ joinedCollection' = joinedCollection (+)
                        SetToBag({[groupId |-> req'.id, userEmail |-> res'.user.email,
                                   userId |-> res'.user.uid, joinedAt |-> Now]})
                  /\ UNCHANGED <<groupCollection, articlesCollection, commentsCollection>>
    /\ \A slot \in Slots :
          (/\ Stepping(slot)
           /\ RJoinGroup \in {inflight[slot].route, inflight'[slot].route}
           /\ res'.responses = 0)
          => store' = store

\* C9: as long as no request has overlapped another, the store holds at most
\* one JoinRecord per (groupId, userEmail) pair: a join whose pair is already
\* recorded responds 409 and inserts nothing, and any other join of an existing
\* group responds 201 and inserts one record stamped with the requester's
\* email and uid.
C9_JoinOnce == [](~overlapped => OneJoinPerPair) /\ [][~overlapped' => JoinOnce]_vars

\* A and B are both members of the group and A's second join was refused, and
\* no request has overlapped another
C9_Witness ==
    /\ ~overlapped
    /\ req.route = RJoinGroup
    /\ res.status = 409
    /\ res.user.email = EmailA
    /\ HasJoined(joinedCollection, req.id, EmailA)
    /\ HasJoined(joinedCollection, req.id, EmailB)

----------------------------------------------------------------------------
(* C10 *)

JoinsHeld(bag, groupId, email) ==
    BagCardinality([r \in {q \in BagToSet(bag) : q.groupId = groupId /\ q.userEmail = email}
                      |-> bag[r]])

\* C10 as stated: once a leave has responded 200, no JoinRecord for the
\* group and the requester's email is left in the store.
C10_LeftMeansGone ==
    (req.route = RLeaveGroup /\ res.status = 200)
    => ~HasJoined(joinedCollection, req.id, res.user.email)

LeaveRemovesOne ==
    (Responds(RLeaveGroup) /\ res'.status = 200 /\ req'.id # NotNull)
    => /\ \E r \in BagToSet(joinedCollection) :
             /\ r.groupId = req'.id
             /\ r.userEmail = res'.user.email
             /\ joinedCollection' = joinedCollection (-) SetToBag({r})
       /\ JoinsHeld(joinedCollection, req'.id, res'.user.email) = 1
             => ~HasJoined(joinedCollection', req'.id, res'.user.email)
       /\ UNCHANGED <<groupCollection, articlesCollection, commentsCollection>>

LeaveOfNothing ==
    (/\ Responds(RLeaveGroup)
     /\ res'.next = 1
     /\ res'.status # 503
     /\ req'.id \notin {MissingId, NotNull}
     /\ ~HasJoined(joinedCollection, req'.id, res'.user.email))
    => res'.status = 404 /\ store' = store

\* C10: a leave that names a group id and responds 200 has removed exactly one JoinRecord for the
\* group and the requester's email and nothing else; when the store held one
\* such record none is left, and a leave that finds none responds 404 and
\* changes nothing.
C10_LeaveRemovesOne == [][LeaveRemovesOne /\ LeaveOfNothing]_vars

\* A has left the group it had joined once, and no record of it is left
C10_Witness ==
    /\ req.route = RLeaveGroup
    /\ res.status = 200
    /\ res.user.email = EmailA
    /\ ObjectIdIsValid(req.id)
    /\ \E g \in groupCollection : g["_id"] = ObjectId(req.id)
    /\ ~HasJoined(joinedCollection, req.id, EmailA)
    /\ \A slot \in Slots : inflight[slot].pc = "idle"

----------------------------------------------------------------------------
(* C11 *)

LeaveFrame ==
    /\ Responds(RLeaveGroup)
       => /\ UNCHANGED <<groupCollection, articlesCollection, commentsCollection,
                         usersCollection>>
          /\ \/ joinedCollection' = joinedCollection
             \/ \E r \in BagToSet(joinedCollection) :
                   /\ r.userEmail = res'.user.email
                   /\ r.groupId = req'.id
                   /\ joinedCollection' = joinedCollection (-) SetToBag({r})
          /\ \A r \in BagToSet(joinedCollection) :
                r.userEmail # res'.user.email
                   => CopiesIn(r, joinedCollection') = CopiesIn(r, joinedCollection)
    /\ \A slot \in Slots :
          (/\ Stepping(slot)
           /\ RLeaveGroup \in {inflight[slot].route, inflight'[slot].route}
           /\ res'.responses = 0)
          => store' = store

\* C11: a leave removes at most one JoinRecord, and only one that carries the
\* requester's email and the requested groupId; the JoinRecords of every other
\* user and all other collections are as they were, whatever the body holds.
C11_LeaveFrame == [][LeaveFrame]_vars

----------------------------------------------------------------------------
(* C12 *)

\* The comment the request of the slot names, if the store holds it
NamedComment(slot) ==
    {c \in commentsCollection : c["_id"] = ObjectId(inflight[slot].commentId)}

OwnsArticle(id, user) ==
    \E a \in articlesCollection : a["_id"] = ObjectId(id) /\ Owns(a, user)

\* The request of the slot is suspended again by this step, at the await pc
\* and with so many article lookups made, and the store is as it was
GoesOn(slot, pc, reads) ==
    /\ inflight'[slot].pc = pc
    /\ inflight'[slot].local = reads
    /\ res'.responses = 0
    /\ store' = store

\* The request of the slot is refused by this step, and the store is as it was
Refused(slot, status) ==
    /\ Responds(RDeleteComment)
    /\ inflight'[slot].pc = "idle"
    /\ res'.status = status
    /\ store' = store

\* The turns of a comment deletion.  The comment lookup refuses a comment
\* filed under another article, sends the comment's author to the deleteOne
\* without an article lookup and anyone else to the article lookup; the
\* article lookup sends the article's author to the deleteOne and refuses
\* anyone else; the deleteOne is reached only by the comment's author or by
\* the author of the article, removes the comment and answers 200
CommentModeration ==
    \A slot \in Slots :
        LET user == Claimed(inflight[slot].headers)
            id == inflight[slot].id
        IN  /\ Resumes(slot, RDeleteComment, "findOne") =>
                  \A c \in NamedComment(slot) :
                      IF c["articleId"] # id
                      THEN Refused(slot, 404)
                      ELSE IF Owns(c, user)
                      THEN GoesOn(slot, "deleteOne", 0)
                      ELSE GoesOn(slot, "findArticle", 1)
            /\ Resumes(slot, RDeleteComment, "findArticle") =>
                  /\ inflight[slot].local = 1
                  /\ \A c \in NamedComment(slot) : ~Owns(c, user)
                  /\ IF OwnsArticle(id, user)
                     THEN GoesOn(slot, "deleteOne", 1)
                     ELSE Refused(slot, 403) /\ res'.articleReads = 1
            /\ Resumes(slot, RDeleteComment, "deleteOne") =>
                  \A c \in NamedComment(slot) :
                      /\ c["articleId"] = id
                      /\ IF inflight[slot].local = 0
                         THEN Owns(c, user)
                         ELSE (\E a \in articlesCollection : a["_id"] = ObjectId(id))
                                 => OwnsArticle(id, user)
                      /\ Responds(RDeleteComment)
                      /\ res'.status = 200
                      /\ res'.articleReads = inflight[slot].local
                      /\ commentsCollection' = commentsCollection \ {c}
            /\ (/\ Stepping(slot)
                /\ RDeleteComment \in {inflight[slot].route, inflight'[slot].route}
                /\ inflight[slot].pc # "deleteOne")
                  => store' = store

\* C12: the deletion of an existing comment filed under the article of the
\* URL responds 200 and removes it iff the requester owns the comment or owns
\* that article, and otherwise responds 403 and removes nothing; the article is
\* looked up only when the requester does not own the comment; a comment filed
\* under another article is answered 404 and stays.  Whether the comment and
\* the article exist and whom they name is judged at the turn in which the
\* handler reads them.
C12_CommentModeration == [][CommentModeration]_vars

\* A has removed B's comment on A's article, after one article lookup
C12_Witness ==
    /\ req.route = RDeleteComment
    /\ res.status = 200
    /\ res.user.email = EmailA
    /\ res.articleReads = 1
    /\ nextId.comments = 1
    /\ commentsCollection = {}
    /\ OwnsArticle(req.id, res.user)

----------------------------------------------------------------------------
(* C13 *)

AuthorFromIdentity(c, user) ==
    /\ c["authorEmail"] = user.email
    /\ c["authorId"] = user.uid
    /\ c["authorName"] = (IF user.name # <<>> THEN user.name ELSE Anonymous)
    /\ c["authorImage"] = PlaceholderImage

\* C13: a comment posted without valid credentials is answered 401 and stores
\* nothing, and the author fields of every comment stored are those of the
\* resolved identity, never values of the request body.
C13_CommentAuthorFromIdentity ==
    [][Responds(RPostComment)
          => /\ ResolutionFails(req'.headers) => res'.status = 401 /\ store' = store
             /\ \A c \in commentsCollection' \ commentsCollection :
                   AuthorFromIdentity(c, res'.user)]_vars

----------------------------------------------------------------------------
(* C14 *)

\* C14: when the deleteOne of a group or article has succeeded and the cascade
\* deleteMany that follows it fails, the DELETE still responds 200 and the
\* document stays deleted.
C14_CascadeBestEffort ==
    [][\A slot \in Slots :
          /\ (Resumes(slot, RDeleteGroup, "deleteMany") /\ ~client'.op)
                => /\ Responds(RDeleteGroup)
                   /\ res'.status = 200
                   /\ groupCollection' = groupCollection
          /\ (Resumes(slot, RDeleteArticle, "deleteMany") /\ ~client'.op)
                => /\ Responds(RDeleteArticle)
                   /\ res'.status = 200
                   /\ articlesCollection' = articlesCollection]_vars

----------------------------------------------------------------------------
(* C15 *)

\* C15: when the ping of a request fails while a reconnect attempt would
\* succeed, the request is not answered 503: the guard reconnects and the
\* handler runs.
C15_PingReconnects ==
    [][\A slot \in Slots :
          (/\ inflight[slot].route \in MutationRoutes
           /\ inflight[slot].pc = "ping"
           /\ Stepping(slot)
           /\ ~client'.ping
           /\ client'.up)
          => res'.status # 503 /\ dbConnected']_vars

----------------------------------------------------------------------------
(* C16 *)

\* The request of the slot, a request to a data route that passed
\* authentication, and the turn it takes in this step
Admitted(slot) ==
    /\ inflight[slot].pc \in {"idle", "returned", "verifyIdToken"}
    /\ \/ /\ Stepping(slot)
          /\ inflight'[slot].route \in MutationRoutes
          /\ inflight'[slot].pc # "verifyIdToken"
       \/ /\ req'.route \in MutationRoutes
          /\ res'.next = 1
          /\ \A other \in Slots \ {slot} : ~Stepping(other)
          /\ inflight[slot].pc = "verifyIdToken" => Stepping(slot)

InGuard(slot, pc) ==
    /\ inflight[slot].route \in MutationRoutes
    /\ inflight[slot].pc = pc
    /\ Stepping(slot)

\* The request is answered 503 and no collection has changed
Refused503 == res'.responses = 1 /\ res'.status = 503 /\ store' = store

\* The guard has returned null: the handler runs, to its answer or to an await
Served(slot) ==
    /\ ~(res'.responses = 1 /\ res'.status = 503)
    /\ res'.responses = 1 \/ inflight'[slot].pc \notin {"idle"} \cup GuardPcs

Unavailable ==
    \A slot \in Slots :
        /\ (Admitted(slot) /\ ~dbConnected /\ res'.status # 401)
              => /\ store' = store
                 /\ ~dbConnected'
                 /\ \/ Refused503
                    \/ res'.responses = 0 /\ inflight'[slot].pc = "connect"
        /\ InGuard(slot, "connect")
              => /\ store' = store
                 /\ IF client'.up
                    THEN res'.responses = 0 /\ inflight'[slot].pc = "connectPing"
                    ELSE Refused503 /\ ~dbConnected'
        /\ InGuard(slot, "connectPing")
              => IF client'.ping
                 THEN Served(slot) /\ dbConnected' /\ handles' = AllHandles
                 ELSE Refused503 /\ ~dbConnected'
        /\ ~InGuard(slot, "wait")
        /\ (Admitted(slot) /\ dbConnected /\ res'.status # 401)
              => /\ store' = store
                 /\ res'.responses = 0
                 /\ inflight'[slot].pc = "ping"
        /\ InGuard(slot, "ping")
              => IF client'.ping
                 THEN Served(slot) /\ dbConnected' = dbConnected
                 ELSE Refused503

\* C16: while the server has no connection, every authenticated request to a
\* data route touches no collection and responds 503 unless the reconnect
\* made for it succeeds; with a connection whose ping answers, requests are
\* served by their handlers.
C16_Unavailable503 == [][Unavailable]_vars

\* Every attempt of the start-up has failed, and with the store still down an
\* authenticated createGroup has been answered 503 and no group was stored
C16_Witness ==
    /\ inflight[1].route = RRun
    /\ inflight[1].pc = "returned"
    /\ ~inflight[1].call.result
    /\ Len(inflight[1].call.outcomes) = StartupRetries
    /\ req.route = RCreateGroup
    /\ res.next = 1
    /\ res.status = 503
    /\ ~dbConnected
    /\ client = StoreDown
    /\ groupCollection = {}

----------------------------------------------------------------------------
(* C17 *)

\* The per-day counts the claim is given: users by creation day, groups by
\* formattedDate (NoDate for a group that has none)
CountU(d) ==
    Cardinality({u \in usersCollection : "createdAt" \in DOMAIN u /\ u["createdAt"] = d})
CountG(d) ==
    Cardinality({g \in groupCollection :
                    IF "formattedDate" \in DOMAIN g THEN g["formattedDate"] = d
                    ELSE d = NoDate})

\* The user count of day d among the rows a request has read
ReadU(rows, d) ==
    LET hit == {i \in 1..Len(rows) : rows[i]["_id"] = d}
    IN  IF hit = {} THEN 0 ELSE rows[CHOOSE i \in hit : TRUE].users

\* data has one row for every day on which the rows read have users or the
\* store has groups, with both counts, in ascending order of the dates
MergedOnce(rows, data) ==
    LET keys == {d \in Days \cup {NoDate} : ReadU(rows, d) > 0 \/ CountG(d) > 0}
    IN  /\ Len(data) = Cardinality(keys)
        /\ \A d \in keys :
              \E i \in 1..Len(data) :
                  data[i] = [date |-> d, users |-> ReadU(rows, d), groups |-> CountG(d)]
        /\ \A i, j \in 1..Len(data) :
              (i < j /\ data[i].date # NoDate /\ data[j].date # NoDate)
                  => data[i].date < data[j].date

\* C17: with the store reachable GET /dashboard-stats reads the users of
\* every creation day and then responds 200 with one row for every day that
\* has users or groups, carrying both counts (0 for the side that has none),
\* the rows in ascending order of their dates; groups without a formattedDate
\* included.  The user counts are those of the turn that reads the users, the
\* group counts those of the turn that reads the groups and answers.
C17_DashboardTotal ==
    [][\A slot \in Slots :
          /\ (Resumes(slot, RDashboardStats, "aggregateUsers") /\ client'.op)
                => /\ inflight'[slot].pc = "aggregateGroups"
                   /\ \A d \in Days \cup {NoDate} :
                         ReadU(inflight'[slot].local, d) = CountU(d)
          /\ (Resumes(slot, RDashboardStats, "aggregateGroups") /\ client'.op)
                => /\ Responds(RDashboardStats)
                   /\ res'.status = 200
                   /\ MergedOnce(inflight[slot].local, res'.data)]_vars

----------------------------------------------------------------------------
(* C18 *)

\* C18: GET /groups/:id with the id of a stored group responds 200 with that
\* group, its userEmail included.
C18_GetGroupById ==
    [][(/\ Responds(RGetGroup)
        /\ ObjectIdIsValid(req'.id)
        /\ \E g \in groupCollection : g["_id"] = ObjectId(req'.id))
          => /\ res'.status = 200
             /\ res'.data \in groupCollection
             /\ res'.data["_id"] = ObjectId(req'.id)
             /\ "userEmail" \in DOMAIN res'.data]_vars

----------------------------------------------------------------------------
(* C19 *)

HasAll(d, fields) == \A f \in fields : f \in DOMAIN d

\* C19: a create request without one of its required fields is answered 400
\* and inserts nothing, so every group, article and comment inserted carries
\* the required fields of its kind.
C19_RequiredFields ==
    [][/\ \A g \in groupCollection' \ groupCollection :
             HasAll(g, {"groupName", "description", "location", "maxMembers"})
       /\ \A a \in articlesCollection' \ articlesCollection :
             HasAll(a, {"title", "content"})
       /\ \A c \in commentsCollection' \ commentsCollection : HasAll(c, {"text"})
       /\ (/\ req'.route \in {RCreateGroup, RPostArticle, RPostComment}
           /\ res'.status = 400)
            => store' = store]_vars

----------------------------------------------------------------------------
(* C20 *)

\* The group the join of the slot names is not in the store
Unknown(slot) ==
    /\ ObjectIdIsValid(inflight[slot].id)
    /\ \A g \in groupCollection : g["_id"] # ObjectId(inflight[slot].id)

\* C20: a join whose well-formed groupId names no stored group when the
\* handler queries the store responds 404 and inserts no JoinRecord, whatever
\* JoinRecords the store still holds: the turn after the query for an existing
\* record answers nothing but 404, and the turn after the lookup of the group
\* answers 404.
C20_JoinUnknownGroup ==
    [][\A slot \in Slots :
          /\ (Resumes(slot, RJoinGroup, "existing") /\ Unknown(slot))
                => /\ joinedCollection' = joinedCollection
                   /\ res'.responses = 1 => res'.status = 404
          /\ (Resumes(slot, RJoinGroup, "findOne") /\ Unknown(slot))
                => /\ joinedCollection' = joinedCollection
                   /\ Responds(RJoinGroup)
                   /\ res'.status = 404]_vars

----------------------------------------------------------------------------
(* C21 *)

CreatedOnce(u, v) ==
    /\ "createdAt" \in DOMAIN v
    /\ v["createdAt"] = u["createdAt"]
    /\ \A f \in (DOMAIN u \cup DOMAIN v) \ {"name", "photo", "updatedAt"} :
          f \in DOMAIN u /\ f \in DOMAIN v /\ u[f] = v[f]

\* C21: the User document of an email keeps the createdAt of its first insert
\* for ever, under any interleaving of POST /save-user requests: every step
\* leaves each stored user in place with the same createdAt, and changes at
\* most its name, photo and updatedAt.
C21_CreatedAtWriteOnce ==
    [][\A u \in usersCollection :
          \E v \in usersCollection' : v["email"] = u["email"] /\ CreatedOnce(u, v)]_vars

----------------------------------------------------------------------------
(* C22 *)

\* C22: GET /user-joined-groups?email=E needs no credentials: whoever sends
\* it, with the store reachable it responds 200 with exactly the JoinRecords
\* whose userEmail is the E of the query string.
C22_JoinsByQueryEmail ==
    [][(/\ Responds(RUserJoinedGroups)
        /\ req'.query # <<>>
        /\ client'.up /\ client'.ping /\ client'.op)
          => /\ res'.status = 200
             /\ \A r \in BagToSet(joinedCollection) :
                   CopiesIn(r, res'.data) =
                      (IF r.userEmail = req'.query THEN CopiesIn(r, joinedCollection)
                       ELSE 0)]_vars

----------------------------------------------------------------------------
(* C23 *)

\* The groups this step takes out of the store
GroupsRemoved ==
    {g \in groupCollection : \A k \in groupCollection' : k["_id"] # g["_id"]}

\* C23: a group leaves the store only in the deleteOne of a DELETE /groups/:id
\* request for its id whose sender passed the owner check; no start of the
\* process and no other request removes a group, whatever its formattedDate.
C23_OnlyOwnerDeleteRemoves ==
    [][\A g \in GroupsRemoved :
          \E slot \in Slots :
              /\ Resumes(slot, RDeleteGroup, "deleteOne")
              /\ ObjectIdIsValid(inflight[slot].id)
              /\ ObjectId(inflight[slot].id) = g["_id"]
              /\ Owns(g, Claimed(inflight[slot].headers))]_vars

\* The process has been started on the second day and the group dated the
\* first day is still stored
C23_Witness ==
    /\ req.route = RRun
    /\ res.data = MaxDays
    /\ \E g \in groupCollection :
          "formattedDate" \in DOMAIN g /\ g["formattedDate"] < res.data

----------------------------------------------------------------------------
(* C24 *)

\* The document the update was for (Target) became a document that has the
\* body's fields, ownership keys apart, with the body's values, an updatedAt,
\* and every other field as it was; the rest of the collection is as it was
MergedInto(coll, collAfter, body) ==
    LET d == Target(coll)
        named == DOMAIN body \ OwnershipFields
    IN  \E e \in collAfter :
            /\ e["_id"] = d["_id"]
            /\ collAfter \ {e} = coll \ {d}
            /\ DOMAIN e = DOMAIN d \cup named \cup {"updatedAt"}
            /\ \A f \in named : e[f] = body[f]
            /\ \A f \in DOMAIN d \ (named \cup {"updatedAt"}) : e[f] = d[f]

\* C24: an update answered 200 changes, in the document it names, exactly the
\* fields of the request body that are not ownership keys, plus updatedAt;
\* every other field of that document and every other document of every
\* collection is as before.
C24_PartialMerge ==
    [][/\ (Responds(RPutGroup) /\ res'.status = 200)
            => /\ MergedInto(groupCollection, groupCollection', req'.body)
               /\ UNCHANGED <<joinedCollection, articlesCollection, commentsCollection,
                              usersCollection>>
       /\ (Responds(RPutArticle) /\ res'.status = 200)
            => /\ MergedInto(articlesCollection, articlesCollection', req'.body)
               /\ UNCHANGED <<groupCollection, joinedCollection, commentsCollection,
                              usersCollection>>]_vars

----------------------------------------------------------------------------
(* C25 *)

\* The JoinRecord a suspended join is about to insert
RecordOf(slot) ==
    [groupId |-> inflight[slot].id, userEmail |-> FallbackEmail(inflight[slot].headers),
     userId |-> FallbackUid(inflight[slot].headers), joinedAt |-> Now]

JoinRace ==
    \A slot \in Slots :
        /\ (Resumes(slot, RJoinGroup, "existing") /\ res'.responses = 0)
              => /\ ~HasJoined(joinedCollection, inflight[slot].id,
                               FallbackEmail(inflight[slot].headers))
                 /\ inflight'[slot].pc = "findOne"
                 /\ store' = store
        /\ (Resumes(slot, RJoinGroup, "findOne") /\ res'.responses = 0)
              => inflight'[slot].pc = "insertOne" /\ store' = store
        /\ (Resumes(slot, RJoinGroup, "insertOne") /\ client'.op)
              => /\ Responds(RJoinGroup)
                 /\ res'.status = 201
                 /\ joinedCollection' = joinedCollection (+) SetToBag({RecordOf(slot)})

\* C25: a join looks for a record of its pair once, when it begins, and goes
\* on only if there is none; the insert that ends it is not guarded by any
\* uniqueness constraint: it adds one JoinRecord and responds 201 whatever
\* the store holds by then, so two joins that overlap both respond 201 and
\* leave two JoinRecords for one (groupId, userEmail) pair.
C25_JoinRace == [][JoinRace]_vars

\* Two joins of A for the same group have both been answered 201 and the
\* store holds the record twice
C25_Witness ==
    /\ req.route = RJoinGroup
    /\ res.status = 201
    /\ res.user.email = EmailA
    /\ \A slot \in Slots : inflight[slot].pc = "idle"
    /\ \E g \in groupCollection : g["_id"] = ObjectId(req.id)
    /\ \E r \in BagToSet(joinedCollection) :
          /\ r.groupId = req.id
          /\ r.userEmail = EmailA
          /\ CopiesIn(r, joinedCollection) = 2

----------------------------------------------------------------------------
(* C26 *)

\* The id string of a stored document: its 24 hex digits in lower case
IdOf(d) == [n |-> d["_id"], sp |-> "lower"]

\* C26: once no request is under way, every JoinRecord names a stored group
\* and every Comment a stored article, in whatever order the turns of a
\* DELETE and of the joins or comments on the same document were taken.
C26_NoOrphansWhenQuiet ==
    Quiet =>
        /\ \A r \in BagToSet(joinedCollection) :
              \E g \in groupCollection : IdOf(g) = r.groupId
        /\ \A c \in commentsCollection :
              \E a \in articlesCollection : IdOf(a) = c["articleId"]

----------------------------------------------------------------------------
(* C28 *)

\* The update answered 200 by this step found, at its write, a document with
\* the id of the request, and that document is in the store after it
AppliedToExisting(route, coll, collAfter) ==
    (Responds(route) /\ res'.status = 200)
    => /\ \E d \in coll : d["_id"] = ObjectId(req'.id)
       /\ \E e \in collAfter : e["_id"] = ObjectId(req'.id) /\ "updatedAt" \in DOMAIN e

\* No document enters the collection by an update
NotRecreated(route, coll, collAfter) ==
    (\E slot \in Slots : inflight[slot].route = route /\ Stepping(slot))
    => \A e \in collAfter : \E d \in coll : d["_id"] = e["_id"]

\* C28: an update of a group or article that responds 200 was applied to a
\* document that existed when it was written, whatever DELETE of the same id
\* ran beside it, and no update brings a deleted document back.
C28_UpdateAppliedToExisting ==
    [][/\ AppliedToExisting(RPutGroup, groupCollection, groupCollection')
       /\ AppliedToExisting(RPutArticle, articlesCollection, articlesCollection')
       /\ NotRecreated(RPutGroup, groupCollection, groupCollection')
       /\ NotRecreated(RPutArticle, articlesCollection, articlesCollection')]_vars

----------------------------------------------------------------------------
(* C29 *)

\* The turns of a DELETE after its owner check, the store carrying out what
\* it is asked: the deleteOne that finds the document removes it and goes on
\* to the cascade; the deleteOne that finds none responds 404 and touches
\* nothing; the turn after the cascade answers 200; and the cascade is issued
\* by no other turn
DeleteSteps(route, coll, collAfter) ==
    \A slot \in Slots :
        LET here == {d \in coll : d["_id"] = ObjectId(inflight[slot].id)}
        IN  /\ (Resumes(slot, route, "deleteOne") /\ client'.op) =>
                  IF here # {}
                  THEN /\ collAfter = coll \ here
                       /\ inflight'[slot].pc = "deleteMany"
                       /\ inflight'[slot].id = inflight[slot].id
                       /\ res'.responses = 0
                  ELSE /\ Responds(route)
                       /\ res'.status = 404
                       /\ store' = store
            /\ (Resumes(slot, route, "deleteMany") /\ client'.op) =>
                  /\ Responds(route)
                  /\ req'.id = inflight[slot].id
                  /\ res'.status = 200
                  /\ collAfter = coll
            /\ (/\ Stepping(slot)
                /\ inflight'[slot].route = route
                /\ inflight'[slot].pc = "deleteMany")
                  => inflight[slot].route = route /\ inflight[slot].pc = "deleteOne"

\* Of the requests under way for one document at most one is past a deleteOne
\* that deleted it, and then the document is gone
OneCascade(route, coll) ==
    \A slot \in Slots :
        (inflight[slot].route = route /\ inflight[slot].pc = "deleteMany") =>
            /\ \A d \in coll : d["_id"] # ObjectId(inflight[slot].id)
            /\ \A other \in Slots \ {slot} :
                  ~(/\ inflight[other].route = route
                    /\ inflight[other].pc = "deleteMany"
                    /\ ObjectId(inflight[other].id) = ObjectId(inflight[slot].id))

\* C29: of the owner's DELETE requests that overlap on one group or article
\* exactly one has its deleteOne remove the document, issues the cascade and
\* responds 200; every other finds nothing to delete, issues no cascade and
\* responds 404.
C29_OneDeleteWins ==
    /\ [](OneCascade(RDeleteGroup, groupCollection)
            /\ OneCascade(RDeleteArticle, articlesCollection))
    /\ [][/\ DeleteSteps(RDeleteGroup, groupCollection, groupCollection')
          /\ DeleteSteps(RDeleteArticle, articlesCollection, articlesCollection')]_vars

\* Two DELETE requests of A for its group passed the owner check together;
\* the deleteOne of one has removed the group and the other has its deleteOne
\* still to come
C29_Witness ==
    \E slot, other \in Slots :
        /\ inflight[slot].route = RDeleteGroup
        /\ inflight[slot].pc = "deleteMany"
        /\ inflight[other].route = RDeleteGroup
        /\ inflight[other].pc = "deleteOne"
        /\ inflight[other].id = inflight[slot].id
        /\ inflight[slot].headers = ClientA
        /\ inflight[other].headers = ClientA
        /\ groupCollection = {}
        /\ nextId.groups = 1

----------------------------------------------------------------------------
(* C27 *)

\* Connect, ping and every operation succeed for the turn taken last
StoreReachable == client.up /\ client.ping /\ client.op

\* A request has passed the guard: it is in its handler, or the handler has
\* answered it
PassedGuard ==
    \/ \E slot \in Slots : InHandler(slot)
    \/ res.responses = 1 /\ res.next = 1 /\ res.status # 503

\* C27: the guard always recovers: if from some moment on every turn finds a
\* store that accepts a connection and answers a ping, then requests pass the
\* guard again and again; dbConnected does not stay false for ever.
C27_GuardRecovers == <>[]StoreReachable => []<>PassedGuard

----------------------------------------------------------------------------
(* C30 *)

WritingRoutes == MutationRoutes \cup {RSaveUser}
Refusals == {400, 403, 404, 409, 503}

\* The turn that answers with a refusal changes no collection; a turn that
\* changes one without answering is the deleteOne of a DELETE, which goes on to
\* its cascade, and the turn after the cascade answers with no refusal
RefusalChangesNothing ==
    /\ (req'.route \in WritingRoutes /\ res'.responses = 1 /\ res'.status \in Refusals)
          => UNCHANGED <<groupCollection, joinedCollection, articlesCollection,
                         commentsCollection, usersCollection>>
    /\ \A slot \in Slots :
          /\ (/\ Stepping(slot)
              /\ res'.responses = 0
              /\ <<groupCollection, joinedCollection, articlesCollection,
                   commentsCollection, usersCollection>>'
                    # <<groupCollection, joinedCollection, articlesCollection,
                        commentsCollection, usersCollection>>)
                => /\ inflight[slot].route \in {RDeleteGroup, RDeleteArticle}
                   /\ inflight'[slot].pc = "deleteMany"
          /\ (inflight[slot].pc = "deleteMany" /\ Stepping(slot))
                => res'.responses = 1 /\ res'.status \notin Refusals

\* C30: a request to one of the eleven writing routes that is answered 400,
\* 403, 404, 409 or 503 has changed none of the five collections.
C30_RefusalChangesNothing == [][RefusalChangesNothing]_vars

\* B's DELETE of A's group was answered 403 and the group and B's JoinRecord
\* for it are both still stored
C30_Witness ==
    /\ req.route = RDeleteGroup
    /\ res.status = 403
    /\ res.user.email = EmailB
    /\ \E g \in groupCollection :
          /\ g["_id"] = ObjectId(req.id)
          /\ g["userEmail"] = EmailA
          /\ HasJoined(joinedCollection, req.id, EmailB)

----------------------------------------------------------------------------
(* C31 *)

\* C31: a request in whose handler a store operation threw, after the guard
\* let it pass, is answered 500, and never with the client error 400, 404 or
\* 409; a request the guard stopped is answered 503.
C31_StoreFailure500 ==
    [][\A slot \in Slots :
          /\ (InHandler(slot) /\ Stepping(slot) /\ ~client'.op)
                => res'.responses = 1 /\ res'.status = 500
          /\ (/\ inflight[slot].route \in Registered
              /\ inflight[slot].pc \in GuardPcs
              /\ Stepping(slot)
              /\ ~client'.up
              /\ ~client'.ping)
                => res'.responses = 1 /\ res'.status = 503]_vars

----------------------------------------------------------------------------
(* C32 *)

ListedStatuses == {200, 201, 400, 401, 403, 404, 409, 500, 503}

\* The request answered last was answered once, with a listed status, and
\* with 404 if no route is registered for it
AnsweredOnce ==
    res.responses # 0 =>
        /\ res.responses = 1
        /\ res.status \in ListedStatuses
        /\ req.route \notin Registered => res.status = 404

\* C32: every request, whatever authentication and the store operations
\* make of it, eventually receives exactly one response, with a status
\* among 200, 201, 400, 401, 403, 404, 409, 500 and 503; no request stays
\* unanswered and a request to an unregistered route is answered 404.
C32_OneListedResponse ==
    /\ []AnsweredOnce
    /\ \A slot \in Slots :
          (inflight[slot].pc # "idle") ~> (inflight[slot].pc = "idle")

----------------------------------------------------------------------------
(* C33 *)

\* The delays run() waits between its five attempts
StartupWaits == <<2000, 3000, 4500, 6750>>

\* The call of the slot is connectToMongoDB still in its loop
Looping(slot) == inflight[slot].pc \in ConnectPcs

\* The call made at most retries attempts, waited the delays that multiply by
\* 1.5 between them and not after the last, and what it returns says whether
\* its last attempt succeeded
ReturnedRight(a) ==
    LET n == Len(a.outcomes)
    IN  /\ n >= 1 /\ n <= a.retries
        /\ a.retries = IF a.caller = "run" THEN StartupRetries ELSE InlineRetries
        /\ a.waits = IF a.caller = "run" THEN SubSeq(StartupWaits, 1, n - 1) ELSE <<>>
        /\ \A k \in 1..(n - 1) : ~a.outcomes[k]
        /\ a.result = a.outcomes[n]
        /\ ~a.result => n = a.retries

\* The call of run() returns as the claim says
RunReturns ==
    \A slot \in Slots :
        (/\ inflight[slot].route = RRun
         /\ Looping(slot)
         /\ inflight'[slot].pc = "returned")
        => /\ ReturnedRight(inflight'[slot].call)
           /\ IF inflight'[slot].call.result
              THEN dbConnected' /\ handles' = AllHandles
              ELSE ~dbConnected'

\* The call of a guard makes its one attempt and does not wait after it: true
\* lets the handler run, with the flag set and the handles assigned, and false
\* is the 503 of the guard, with the flag clear
ReconnectReturns ==
    \A slot \in Slots :
        (inflight[slot].route \in Registered /\ Looping(slot) /\ Stepping(slot))
        => /\ inflight[slot].call.retries = InlineRetries
           /\ inflight'[slot].pc # "wait"
           /\ inflight[slot].pc = "connect"
                 => IF client'.up
                    THEN inflight'[slot].pc = "connectPing"
                    ELSE res'.status = 503 /\ ~dbConnected'
           /\ inflight[slot].pc = "connectPing"
                 => IF client'.ping
                    THEN res'.status # 503 /\ dbConnected' /\ handles' = AllHandles
                    ELSE res'.status = 503 /\ ~dbConnected'

\* C33: connectToMongoDB terminates after at most retries attempts (5 at
\* start-up, 1 for the guard's reconnect), waits delay ms between failed
\* attempts, multiplying it by 1.5 (2000, 3000, 4500, 6750), and not after the
\* last; it returns true with dbConnected true and every handle assigned iff
\* an attempt succeeded, and otherwise false with dbConnected false.
C33_ConnectLoop ==
    /\ [][RunReturns /\ ReconnectReturns]_vars
    /\ [](\A slot \in Slots :
             Looping(slot) =>
                 Len(inflight[slot].call.outcomes) < inflight[slot].call.retries)
    /\ (inflight[1].route = RRun /\ Looping(1)) ~> (inflight[1].pc = "returned")

\* run()'s call has returned false after five failed attempts and four waits
C33_Witness ==
    /\ inflight[1].pc = "returned"
    /\ inflight[1].call.caller = "run"
    /\ ~inflight[1].call.result
    /\ Len(inflight[1].call.outcomes) = StartupRetries
    /\ inflight[1].call.waits = StartupWaits

----------------------------------------------------------------------------
(* C34 *)

\* Field f of the resource is present, not empty, and equal to v
Matches(r, f, v, empty) == f \in DOMAIN r /\ r[f] # empty /\ r[f] = v

\* The resource with its six ownership fields only
OwnershipOnly(r) == [f \in DOMAIN r \cap OwnershipFields |-> r[f]]

\* C34: isCreator(resource, email, uid) is true iff userEmail, creatorEmail or
\* authorEmail is present, non-empty and equal to email, or userId, creatorId
\* or authorId is present, non-empty and equal to uid; an absent or empty
\* field never matches, also when the email or uid of the identity is itself
\* absent; no other field is read and nothing is changed.
C34_IsCreatorIff ==
    /\ [](req.route = RIsCreator =>
            \A r \in groupCollection :
               LET email == res.user.email
                   uid == res.user.uid
               IN  /\ (res.status = 200) <=>
                          \/ \E f \in EmailFields : Matches(r, f, email, <<>>)
                          \/ \E f \in IdFields : Matches(r, f, uid, "")
                   /\ (\A f \in DOMAIN r \cap EmailFields : r[f] = <<>>)
                        /\ (\A f \in DOMAIN r \cap IdFields : r[f] = "")
                        => res.status = 403
                   /\ isCreator(r, email, uid) = isCreator(OwnershipOnly(r), email, uid))
    /\ [][req'.route = RIsCreator => UNCHANGED <<store, dbConnected, handles>>]_vars

\* A resource whose userId is empty was checked against an identity without
\* uid, and did not match
C34_Witness ==
    /\ req.route = RIsCreator
    /\ res.user.uid = ""
    /\ res.status = 403
    /\ \E r \in groupCollection : "userId" \in DOMAIN r /\ r["userId"] = ""

----------------------------------------------------------------------------
(* C35 *)

\* The stored children of the parent that the id spells, whatever spelling
\* they were stored under
JoinsOfParent(bag, id) ==
    {r \in BagToSet(bag) : ObjectIdIsValid(r.groupId) /\ ObjectId(r.groupId) = ObjectId(id)}
CommentsOfParent(coll, id) ==
    {c \in coll : ObjectIdIsValid(c["articleId"]) /\ ObjectId(c["articleId"]) = ObjectId(id)}

\* C35: children are keyed by the id string the cascade and the comment
\* query use: whatever accepted spelling of the parent's id a join or a
\* comment was stored under, a successful DELETE of the parent under any
\* accepted spelling removes it, and GET /articles/:id/comments under any
\* accepted spelling returns the comment.
C35_ChildrenKeyedAlike ==
    [][/\ (Responds(RDeleteGroup) /\ res'.status = 200)
            => \A r \in JoinsOfParent(joinedCollection, req'.id) :
                  r \notin BagToSet(joinedCollection')
       /\ (Responds(RDeleteArticle) /\ res'.status = 200)
            => \A c \in CommentsOfParent(commentsCollection, req'.id) :
                  c \notin commentsCollection'
       /\ (Responds(RGetComments) /\ res'.status = 200)
            => CommentsOfParent(commentsCollection, req'.id)
                  \subseteq {res'.data[i] : i \in DOMAIN res'.data}]_vars

----------------------------------------------------------------------------
(* C36 *)

\* The requests that are past their guard: checkDbConnection returned null
\* to their handler, which waits for a store operation
PastGuard == {slot \in Slots : InHandler(slot)}

\* The step lets the request of a slot past its guard: the await of the guard
\* ends and the handler runs, to an answer of its own or to its first await
GuardReturnsNull ==
    \E slot \in Slots :
        /\ inflight[slot].route \in Registered
        /\ inflight[slot].pc \in GuardPcs
        /\ Stepping(slot)
        /\ \/ res'.responses = 1 /\ res'.status # 503
           \/ res'.responses = 0 /\ inflight'[slot].pc \notin GuardPcs

\* A request waits for a store operation only after its guard, and only the
\* turn of a request that is past its guard, or passes it, changes a collection
BehindGuard ==
    /\ \A slot \in Slots :
          (/\ Stepping(slot)
           /\ inflight'[slot].route \in Registered
           /\ inflight'[slot].pc \notin {"idle", "verifyIdToken"} \cup GuardPcs)
          => /\ inflight[slot].route = inflight'[slot].route
             /\ inflight[slot].pc \in GuardPcs \/ InHandler(slot)
    /\ store' # store
          => /\ handles' = AllHandles
             /\ \E slot \in Slots :
                   /\ Stepping(slot)
                   /\ inflight[slot].pc \in GuardPcs \/ InHandler(slot)

\* C36: a handler operates on a collection handle only after checkDbConnection
\* returned null in its request, and whenever checkDbConnection returns null
\* db and the five collection handles are assigned, also while the start-up
\* loop and other requests run.
C36_HandlesBehindGuard ==
    /\ [][GuardReturnsNull => handles' = AllHandles]_vars
    /\ [](PastGuard # {} => handles = AllHandles)
    /\ [][BehindGuard]_vars

\* A join passed its guard while run() was in its loop, and waits for the
\* store when the last attempt of run() has failed and cleared the flag
C36_Witness ==
    /\ inflight[1].route = RRun
    /\ inflight[1].pc = "returned"
    /\ ~inflight[1].call.result
    /\ inflight[2].route = RJoinGroup
    /\ InHandler(2)
    /\ ~dbConnected
    /\ handles = AllHandles

====
